---------------------------- MODULE Spec2Model ----------------------------
(***************************************************************************)
(* A model of claude_modeling_labs.py: the CMLAuth session (authenticate   *)
(* and request, the "authenticated request gateway") and the tools built   *)
(* on it.  Each action is the code that runs between two await points of   *)
(* the asyncio program; the remote CML server is the environment and picks *)
(* every response.                                                         *)
(*                                                                         *)
(* Texts (tokens, header values, response bodies) are sequences of one-    *)
(* character strings, so that strip('"') and f"Bearer {token}" are         *)
(* computed as Python computes them.                                       *)
(***************************************************************************)
EXTENDS Integers, Sequences, FiniteSets, TLC

VARIABLES
    cml_auth,    \* the global: NoSession while it is None, then the CMLAuth
                 \* object with the fields set by __init__ (token and client
                 \* headers are the next two variables)
    token,       \* CMLAuth.token: None or a text
    clientAuth,  \* CMLAuth.client.headers["Authorization"]: None or a text
    fr,          \* fr[c]: the frame of gateway call c (locals and history)
    tool,        \* the frame of the running tool (public operation)
    now,         \* asyncio.get_event_loop().time(), in seconds since the running
                 \* tool was called
    nodeState    \* the server's state of the lab and of every node of it

gwVars == <<cml_auth, token, clientAuth, fr>>
envVars == <<now, nodeState>>
vars == <<cml_auth, token, clientAuth, fr, tool, now, nodeState>>

----------------------------------------------------------------------------
(* Bounds of the model *)

MaxBodyLen == 2      \* longest enumerated login response body
MaxTimeout == 6      \* largest timeout passed to wait_for_lab_nodes
MaxLatency == 1      \* longest time a node status call takes, and longest
                     \* time asyncio.sleep oversleeps
MaxListLen == 2      \* longest list of nodes, links or node definitions that
                     \* the server returns
MaxSwitches == 5     \* largest num_switches passed to create_stp_lab

(* Program constants *)

HTTP_OK == 200
HTTP_UNAUTHORIZED == 401
POLL_INTERVAL == 5   \* asyncio.sleep(5) between two check rounds

----------------------------------------------------------------------------
(* Texts *)

DQUOTE == "\""
Chars == {DQUOTE, "a"}

\* Python's None where a text may stand: a sequence that is no text.
None == <<"None">>

RECURSIVE TextsOfLen(_)
TextsOfLen(n) ==
    IF n = 0 THEN {<<>>}
    ELSE {<<ch>> \o t : ch \in Chars, t \in TextsOfLen(n - 1)}

Texts(n) == UNION {TextsOfLen(k) : k \in 0..n}

\* The scenario body of spec section 8: the JSON string "abc123".
SampleBody == <<DQUOTE, "a", "b", "c", "1", "2", "3", DQUOTE>>

LoginBodies == Texts(MaxBodyLen) \cup {SampleBody}

RECURSIVE lstrip(_)
lstrip(s) == IF s # <<>> /\ Head(s) = DQUOTE THEN lstrip(Tail(s)) ELSE s

RECURSIVE rstrip(_)
rstrip(s) ==
    IF s # <<>> /\ s[Len(s)] = DQUOTE THEN rstrip(SubSeq(s, 1, Len(s) - 1)) ELSE s

\* str.strip('"'): every leading and every trailing double quote removed.
strip_quotes(s) == rstrip(lstrip(s))

\* str(x) inside an f-string.
Format(x) == IF x = None THEN <<"N", "o", "n", "e">> ELSE x

\* f"Bearer {token}"
BearerHeader(t) == <<"B", "e", "a", "r", "e", "r", " ">> \o Format(t)

\* Python truthiness of self.token: None and "" are both false.
Truthy(t) == t # None /\ t # <<>>

----------------------------------------------------------------------------
(* HTTP *)

LOGIN == <<"/api/v0/authenticate">>
AUTHOK == <<"/api/v0/authok">>

Statuses == {HTTP_OK, HTTP_UNAUTHORIZED, 403, 500}

\* What the transport hands back for one HTTP call: a response, or an
\* exception raised by the client (connection refused, timeout, ...).
Response(status, body) == [kind |-> "response", status |-> status, body |-> body]
TransportError == [kind |-> "transport_error", status |-> 0, body |-> <<>>]
NoResponse == [kind |-> "none", status |-> 0, body |-> <<>>]

\* httpx.Response.is_success
is_success(status) == status >= 200 /\ status < 300

\* True when `await client.request(...); response.raise_for_status()` gets past
\* the call: a response arrived and its status is 2xx.
Passes(r) == r.kind = "response" /\ is_success(r.status)

\* The exception that the call, or raise_for_status() on its response, raises.
\* httpx.HTTPStatusError carries the request and the response.
ErrorOf(method, endpoint, r) ==
    [kind |-> IF r.kind = "response" THEN "HTTPStatusError" ELSE "TransportError",
     method |-> method, endpoint |-> endpoint, status |-> r.status, body |-> <<>>]

Returned(method, endpoint, r) ==
    [kind |-> "response", method |-> method, endpoint |-> endpoint,
     status |-> r.status, body |-> r.body]

\* The value authenticate() returns to initialize_client: self.token.
ReturnedToken(t) ==
    [kind |-> "token", method |-> "POST", endpoint |-> LOGIN, status |-> HTTP_OK,
     body |-> t]

NoResult == [kind |-> "none", method |-> "", endpoint |-> <<>>, status |-> 0, body |-> <<>>]

----------------------------------------------------------------------------
(* Gateway call frames *)

Calls == {"A", "B"}
Main == "A"

\* An endpoint request as it leaves the client, with what the session held
\* when it left.
Sent(f, hdr, t) ==
    [method |-> f.method, endpoint |-> f.endpoint, payload |-> f.payload,
     hdr |-> hdr, tok |-> t, nAuth |-> f.nAuth, nAuthRet |-> f.nAuthRet,
     nStore |-> f.nStore, loginTok |-> f.loginTok]

IdleFrame ==
    [pc |-> "idle", fn |-> "none", why |-> "none",
     method |-> "", endpoint |-> <<>>, payload |-> <<>>,
     hdr |-> None, result |-> NoResult,
     \* history of the call, read by the properties only
     tok0 |-> None, a_tok |-> None, a_hdr |-> None, a_nVerify |-> 0,
     loginResp |-> NoResponse, verifyResp |-> NoResponse, loginTok |-> None,
     a_ret |-> None,
     nAuth |-> 0, nAuthRet |-> 0, nLogin |-> 0, nVerify |-> 0, nStore |-> 0,
     sent |-> <<>>, resps |-> <<>>]

Done(c) == fr[c].pc \in {"idle", "returned", "raised"}
NoCallRunning == \A c \in Calls : Done(c)

----------------------------------------------------------------------------
(* CMLAuth.authenticate and CMLAuth.request, one action per await *)

\* authenticate() is entered and its login POST leaves (lines 71-75).
SendLogin(f, why) ==
    [f EXCEPT !.pc = "login", !.why = why,
              !.nAuth = @ + 1, !.nLogin = @ + 1,
              !.a_tok = token, !.a_hdr = clientAuth, !.a_nVerify = f.nVerify,
              !.loginResp = NoResponse, !.verifyResp = NoResponse,
              !.a_ret = None]

\* Variant: the retry reuses the headers built for the first request.
SendRequest_stale(f, pcNext) ==
    LET hdr == IF pcNext = "await2" THEN f.hdr ELSE BearerHeader(token) IN
    [f EXCEPT !.pc = pcNext, !.hdr = hdr,
              !.sent = Append(@, Sent(f, hdr, token))]

\* kwargs["headers"]["Authorization"] = f"Bearer {self.token}" and the endpoint
\* request leaves (lines 116-120 for the first request, 126-127 for the retry).
SendRequest(f, pcNext) ==
    LET hdr == BearerHeader(token) IN
    [f EXCEPT !.pc = pcNext, !.hdr = hdr,
              !.sent = Append(@, Sent(f, hdr, token))]

\* Variant: request() never authenticates up front.
NeedsAuth_never(t) == FALSE

\* `if not self.token` (line 105).
NeedsAuth(t) == ~Truthy(t)

\* request(method, endpoint, **kwargs) up to its first await (lines 105-120).
RequestEnter(c, method, endpoint, payload) ==
    LET f == [IdleFrame EXCEPT !.fn = "request", !.method = method,
                               !.endpoint = endpoint, !.payload = payload,
                               !.tok0 = token]
    IN  /\ fr' = [fr EXCEPT ![c] = IF NeedsAuth(token) THEN SendLogin(f, "pre")
                                                        ELSE SendRequest(f, "await1")]
        /\ UNCHANGED <<cml_auth, token, clientAuth>>

\* Variant: a rejected re-authentication is followed by the retry all the same.
LoginResponds_retryanyway(c, r) ==
    /\ fr[c].pc = "login"
    /\ IF Passes(r)
       THEN LET t == strip_quotes(r.body) IN
            /\ token' = t
            /\ clientAuth' = BearerHeader(t)
            /\ fr' = [fr EXCEPT ![c] = [@ EXCEPT !.pc = "verify", !.loginResp = r,
                                                  !.loginTok = t, !.nStore = @ + 1,
                                                  !.nVerify = @ + 1]]
       ELSE /\ fr' = [fr EXCEPT ![c] =
                        IF fr[c].why = "re"
                        THEN SendRequest([@ EXCEPT !.loginResp = r], "await2")
                        ELSE [@ EXCEPT !.pc = "raised", !.loginResp = r,
                                       !.result = ErrorOf("POST", LOGIN, r)]]
            /\ UNCHANGED <<token, clientAuth>>
    /\ UNCHANGED cml_auth

\* Variant: the token is stored before raise_for_status() is called.
LoginResponds_storefirst(c, r) ==
    /\ fr[c].pc = "login"
    /\ LET t == strip_quotes(r.body) IN
       /\ token' = t
       /\ clientAuth' = BearerHeader(t)
       /\ fr' = [fr EXCEPT ![c] =
                   IF Passes(r)
                   THEN [@ EXCEPT !.pc = "verify", !.loginResp = r,
                                  !.loginTok = t, !.nStore = @ + 1,
                                  !.nVerify = @ + 1]
                   ELSE [@ EXCEPT !.pc = "raised", !.loginResp = r,
                                  !.nStore = @ + 1,
                                  !.result = ErrorOf("POST", LOGIN, r)]]
    /\ UNCHANGED cml_auth

\* The login response arrives (lines 76-82): raise_for_status(), then the token
\* and the client's default header are stored and the verification GET leaves.
LoginResponds(c, r) ==
    /\ fr[c].pc = "login"
    /\ IF Passes(r)
       THEN LET t == strip_quotes(r.body) IN
            /\ token' = t
            /\ clientAuth' = BearerHeader(t)
            /\ fr' = [fr EXCEPT ![c] = [@ EXCEPT !.pc = "verify", !.loginResp = r,
                                                  !.loginTok = t, !.nStore = @ + 1,
                                                  !.nVerify = @ + 1]]
       ELSE /\ fr' = [fr EXCEPT ![c] = [@ EXCEPT !.pc = "raised", !.loginResp = r,
                                                  !.result = ErrorOf("POST", LOGIN, r)]]
            /\ UNCHANGED <<token, clientAuth>>
    /\ UNCHANGED cml_auth

\* Variant: a failed verification makes authenticate() raise.
VerifyResponds_strict(c, r) ==
    /\ fr[c].pc = "verify"
    /\ LET f == [fr[c] EXCEPT !.verifyResp = r] IN
       fr' = [fr EXCEPT ![c] =
                IF ~Passes(r)
                THEN [f EXCEPT !.pc = "raised", !.result = ErrorOf("GET", AUTHOK, r)]
                ELSE LET g == [f EXCEPT !.nAuthRet = @ + 1, !.a_ret = token] IN
                     CASE g.why = "init" -> [g EXCEPT !.pc = "returned",
                                                      !.result = ReturnedToken(token)]
                       [] g.why = "pre"  -> SendRequest(g, "await1")
                       [] g.why = "re"   -> SendRequest(g, "await2")]
    /\ UNCHANGED <<cml_auth, token, clientAuth>>

\* The verification response arrives (lines 82-88): whatever it is,
\* authenticate() returns self.token, and its caller goes on to its next await.
VerifyResponds(c, r) ==
    /\ fr[c].pc = "verify"
    /\ LET f == [fr[c] EXCEPT !.verifyResp = r, !.nAuthRet = @ + 1,
                              !.a_ret = token] IN
       fr' = [fr EXCEPT ![c] =
                CASE f.why = "init" -> [f EXCEPT !.pc = "returned",
                                                 !.result = ReturnedToken(token)]
                  [] f.why = "pre"  -> SendRequest(f, "await1")
                  [] f.why = "re"   -> SendRequest(f, "await2")]
    /\ UNCHANGED <<cml_auth, token, clientAuth>>

\* Variant: raise_for_status() is left out, every response is returned.
Settle_noraise(f, r) ==
    IF r.kind = "response"
    THEN [f EXCEPT !.pc = "returned", !.result = Returned(f.method, f.endpoint, r)]
    ELSE [f EXCEPT !.pc = "raised", !.result = ErrorOf(f.method, f.endpoint, r)]

\* The frame after `response.raise_for_status(); return response` (lines 129-133).
Settle(f, r) ==
    IF Passes(r)
    THEN [f EXCEPT !.pc = "returned", !.result = Returned(f.method, f.endpoint, r)]
    ELSE [f EXCEPT !.pc = "raised", !.result = ErrorOf(f.method, f.endpoint, r)]

\* Variant: single flight.  A 401 re-authenticates only while the session still
\* holds the token the request left with; when another call has stored a new
\* one in the meantime, the request is retried with that one.
Respond1_singleflight(c, r) ==
    /\ fr[c].pc = "await1"
    /\ LET f == [fr[c] EXCEPT !.resps = Append(@, r)] IN
       fr' = [fr EXCEPT ![c] =
                CASE r.kind = "response" /\ r.status = HTTP_UNAUTHORIZED
                       /\ token = f.sent[1].tok -> SendLogin(f, "re")
                  [] r.kind = "response" /\ r.status = HTTP_UNAUTHORIZED ->
                       SendRequest(f, "await2")
                  [] OTHER -> Settle(f, r)]
    /\ UNCHANGED <<cml_auth, token, clientAuth>>

\* Variant: a 403 re-authenticates as a 401 does.
Respond1_reauth403(c, r) ==
    /\ fr[c].pc = "await1"
    /\ LET f == [fr[c] EXCEPT !.resps = Append(@, r)] IN
       fr' = [fr EXCEPT ![c] =
                IF r.kind = "response" /\ r.status \in {HTTP_UNAUTHORIZED, 403}
                THEN SendLogin(f, "re")
                ELSE Settle(f, r)]
    /\ UNCHANGED <<cml_auth, token, clientAuth>>

\* Variant: a 401 is retried at once, without re-authenticating.
Respond1_noreauth(c, r) ==
    /\ fr[c].pc = "await1"
    /\ LET f == [fr[c] EXCEPT !.resps = Append(@, r)] IN
       fr' = [fr EXCEPT ![c] =
                IF r.kind = "response" /\ r.status = HTTP_UNAUTHORIZED
                THEN SendRequest(f, "await2")
                ELSE Settle(f, r)]
    /\ UNCHANGED <<cml_auth, token, clientAuth>>

\* Variant: a 401 makes request() forget the token before it re-authenticates.
Respond1_droptoken(c, r) ==
    /\ fr[c].pc = "await1"
    /\ LET f == [fr[c] EXCEPT !.resps = Append(@, r)] IN
       fr' = [fr EXCEPT ![c] =
                IF r.kind = "response" /\ r.status = HTTP_UNAUTHORIZED
                THEN SendLogin(f, "re")
                ELSE Settle(f, r)]
    /\ token' = IF r.kind = "response" /\ r.status = HTTP_UNAUTHORIZED
                THEN None ELSE token
    /\ UNCHANGED <<cml_auth, clientAuth>>

\* The first response arrives (lines 120-125, 129-133).
Respond1(c, r) ==
    /\ fr[c].pc = "await1"
    /\ LET f == [fr[c] EXCEPT !.resps = Append(@, r)] IN
       fr' = [fr EXCEPT ![c] =
                IF r.kind = "response" /\ r.status = HTTP_UNAUTHORIZED
                THEN SendLogin(f, "re")
                ELSE Settle(f, r)]
    /\ UNCHANGED <<cml_auth, token, clientAuth>>

\* Variant: the 401 check is a loop, a second 401 re-authenticates again.
Respond2_loop(c, r) ==
    /\ fr[c].pc = "await2"
    /\ LET f == [fr[c] EXCEPT !.resps = Append(@, r)] IN
       fr' = [fr EXCEPT ![c] =
                IF r.kind = "response" /\ r.status = HTTP_UNAUTHORIZED
                THEN SendLogin(f, "re")
                ELSE Settle(f, r)]
    /\ UNCHANGED <<cml_auth, token, clientAuth>>

\* The response to the retried request arrives (lines 127-133).
Respond2(c, r) ==
    /\ fr[c].pc = "await2"
    /\ fr' = [fr EXCEPT ![c] = Settle([fr[c] EXCEPT !.resps = Append(@, r)], r)]
    /\ UNCHANGED <<cml_auth, token, clientAuth>>

----------------------------------------------------------------------------
(* The server's responses *)

Labs == {"L1"}
Nodes == {"n1", "n2"}
NodeStates == {"STARTED", "BOOTED"}
LabEndpoint(lab) == <<"/api/v0/labs/", lab>>
StartEndpoint(lab) == <<"/api/v0/labs/", lab, "/start">>
StopEndpoint(lab) == <<"/api/v0/labs/", lab, "/stop">>
NewInterfaceEndpoint(lab) == <<"/api/v0/labs/", lab, "/interfaces">>
LinksEndpoint(lab) == <<"/api/v0/labs/", lab, "/links">>
NodesEndpoint(lab) == <<"/api/v0/labs/", lab, "/nodes">>
NodeEndpoint(lab, n) == <<"/api/v0/labs/", lab, "/nodes/", n>>
NodeDefsEndpoint == <<"/api/v0/node_definitions">>
LabsEndpoint == <<"/api/v0/labs">>
AddNodeEndpoint(lab) == <<"/api/v0/labs/", lab, "/nodes", "?populate_interfaces=true">>
InterfacesEndpoint(lab, n) ==
    <<"/api/v0/labs/", lab, "/nodes/", n, "/interfaces?operational=true">>
InterfaceEndpoint(lab, i) ==
    <<"/api/v0/labs/", lab, "/interfaces/", i, "?operational=true">>
ConfigEndpoint(lab, n) == <<"/api/v0/labs/", lab, "/nodes/", n, "/config">>

\* JSON bodies, as tagged tuples.  {"state": st, ...} of a lab:
LabJson(st) == <<"object", "state", st>>
\* A body that response.json() cannot parse.
NotJson == <<"not json">>
EmptyJson == <<"object">>
\* A JSON array where the caller expects an object: .get() raises on it.
JsonArray == <<"array">>
\* {"id": id, ...} of a created link
LinkJson(id) == <<"object", "id", id>>
\* {"state": st, ...} of a node
NodeJson(st) == <<"object", "state", st>>
\* {"id": id, ...}, an element of a listing of nodes, links or node definitions
Item(id) == <<"object", "id", id>>
\* An element that is no JSON object: a bare id string.
BareString == <<"string", "n1">>
\* What a listing may hold: objects with an id, with an empty id, without an
\* id, and bare strings.
Elements == {Item(n) : n \in Nodes} \cup {Item(""), EmptyJson, BareString}

RECURSIVE ListsOfLen(_, _)
ListsOfLen(S, n) ==
    IF n = 0 THEN {<<>>}
    ELSE {<<x>> \o l : x \in S, l \in ListsOfLen(S, n - 1)}

\* A listing as the server returns it: a JSON array of elements ("array"), or
\* a JSON object keyed by id ("object"), held as the sequence of its
\* <<key, value>> pairs.
NodesJson(form, x) == <<form, x>>
\* The id-keyed mapping of the nodes `ids`.
Keyed(ids) == [k \in 1..Len(ids) |-> <<ids[k], Item(ids[k])>>]
\* The node sets a lab may have, in the order the server lists them.
NodeLists == {<<>>, <<"n1">>, <<"n1", "n2">>}
\* The 2xx bodies of a listing endpoint.
ListBodies ==
    {NodesJson("array", l) : l \in UNION {ListsOfLen(Elements, k) : k \in 0..MaxListLen}}
      \cup {NodesJson("object", Keyed(ids)) : ids \in NodeLists}
      \cup {NotJson}

LabStates == {"STARTED", "STOPPED"}

\* The ids the server gives to the nodes it creates in a lab, in this order.
NodeNames == <<"n1", "n2", "n3", "n4", "n5", "n6">>
\* The interfaces a node may list, in the order the server lists them.
InterfaceLists == {<<>>, <<"if1">>, <<"if2">>, <<"if1", "if2">>}
\* {"type": ty, "is_connected": conn, ...} of an interface
InterfaceJson(ty, conn) == <<"object", "type", ty, "is_connected", conn>>

\* The bodies a 2xx response to `method endpoint` may carry.
BodiesFor(method, endpoint) ==
    CASE endpoint = LOGIN -> LoginBodies
      [] endpoint = LabsEndpoint -> {Item("L1"), EmptyJson, NotJson}
      [] Len(endpoint) = 4 /\ endpoint[4] = "?populate_interfaces=true" ->
            {Item(NodeNames[Len(tool.made) + 1]), EmptyJson, NotJson}
      [] Len(endpoint) = 5 /\ endpoint[5] = "/interfaces?operational=true" ->
            {NodesJson("array", l) : l \in InterfaceLists} \cup {NotJson}
      [] Len(endpoint) = 5 /\ endpoint[3] = "/interfaces/" ->
            {InterfaceJson("physical", FALSE), InterfaceJson("physical", TRUE), NotJson}
      [] endpoint \in {LabEndpoint(l) : l \in Labs} /\ method = "GET" ->
            {LabJson(nodeState[endpoint[2]]), NotJson}
      [] endpoint \in {NewInterfaceEndpoint(l) : l \in Labs} ->
            {NodesJson("array", <<Item("if1")>>), NodesJson("array", <<>>),
             Item("if1"), EmptyJson, NotJson}
      [] endpoint \in {LinksEndpoint(l) : l \in Labs} /\ method = "POST" ->
            {LinkJson("k1"), EmptyJson, JsonArray, NotJson}
      [] endpoint \in {LinksEndpoint(l) : l \in Labs} /\ method = "GET" -> ListBodies
      [] endpoint \in {NodesEndpoint(l) : l \in Labs} -> ListBodies
      [] endpoint = NodeDefsEndpoint -> ListBodies
      [] endpoint \in {NodeEndpoint(l, n) : l \in Labs, n \in Nodes} ->
            {NodeJson(nodeState[endpoint[4]]), NotJson}
      [] OTHER -> {EmptyJson}

\* Every outcome of one HTTP call `method endpoint`; a login answers with one of
\* `loginBodies`.
OutcomesOf(method, endpoint, loginBodies) ==
    {Response(HTTP_OK, b) : b \in IF endpoint = LOGIN THEN loginBodies
                                                      ELSE BodiesFor(method, endpoint)}
      \cup {Response(st, <<>>) : st \in Statuses \ {HTTP_OK}}
      \cup {TransportError}

----------------------------------------------------------------------------
(* Tools (public operations) *)

NoValue == [kind |-> "none", text |-> "", data |-> <<>>]
Value(text, data) == [kind |-> "value", text |-> text, data |-> data]
\* A returned error: an {"error": ...} mapping or an error string.
ErrorValue(text) == [kind |-> "error", text |-> text, data |-> <<>>]

IdleTool ==
    [name |-> "none", pc |-> "idle", lab |-> "", result |-> NoValue,
     \* create_link_v3: interface_id_a, interface_id_b
     a |-> "", b |-> "",
     \* wait_for_lab_nodes: timeout, start_time, all_ready, nodes, the index of
     \* the node being queried, and the time the sleep ends
     timeout |-> 0, start_time |-> 0, all_ready |-> FALSE, nodes |-> <<>>,
     i |-> 0, wake |-> 0,
     \* history, read by the properties only: the gateway calls made and how
     \* each ended, the check rounds begun, the states seen in the last round,
     \* whether every node has been STARTED since start_time was taken,
     \* whether start_time was taken at all, and the sleeps begun
     calls |-> <<>>, outs |-> <<>>, rounds |-> 0, seen |-> <<>>, stayed |-> TRUE,
     polling |-> FALSE, sleeps |-> 0,
     \* history of create_link_v3: how its first attempt ended
     first |-> "none",
     \* create_ospf_lab and create_stp_lab: num_switches, the ids of the nodes
     \* created, the number of links recorded, and inside link_nodes the two
     \* nodes, the side being looked at, its interfaces and the index of the
     \* one being checked
     num_switches |-> 0, made |-> <<>>, links |-> 0,
     na |-> "", nb |-> "", side |-> "", ifaces |-> <<>>, j |-> 0,
     \* history of delete_lab and create_interface: the state the lab was in
     \* when the tool was called, and whether its details said STARTED
     was |-> "", said |-> "nothing"]

ToolIdle == tool.pc \in {"idle", "done"}

\* Variant: the check lets every call through.
_check_auth_open == NoValue

\* _check_auth(): None when the global is set, the error mapping otherwise.
_check_auth == IF ~cml_auth.exists THEN ErrorValue("You must initialize the client first with initialize_client()")
               ELSE NoValue

NewTool(name, lab) == [IdleTool EXCEPT !.name = name, !.pc = "await", !.lab = lab]

\* The history is kept for every tool but create_stp_lab, which makes up to
\* seventy gateway calls and whose properties read its result only.
HistoryKept(t) == t.name # "create_stp_lab"

\* `await cml_auth.request(method, endpoint, ...)` up to the first await inside
\* it; the tool then waits at `pc`.
ToolRequest(t, pc, method, endpoint, payload) ==
    /\ tool' = [t EXCEPT !.pc = pc,
                         !.calls = IF HistoryKept(t)
                                   THEN Append(@, [method |-> method,
                                                   endpoint |-> endpoint,
                                                   payload |-> payload])
                                   ELSE @]
    /\ RequestEnter(Main, method, endpoint, payload)

\* The tool frame once the awaited gateway call is over.
Resumed(t) ==
    [t EXCEPT !.outs = IF HistoryKept(t)
                       THEN Append(@, [pc |-> fr[Main].pc,
                                       endpoint |-> fr[Main].result.endpoint])
                       ELSE @]

ToolReturn(t, v) == [t EXCEPT !.pc = "done", !.result = v]

\* cml_auth = None
NoSession ==
    [exists |-> FALSE, base_url |-> <<>>, username |-> "", password |-> "",
     verify_ssl |-> TRUE]

\* CMLAuth.__init__ (lines 46-51)
CMLAuth(base_url, username, password, verify_ssl) ==
    [exists |-> TRUE, base_url |-> base_url, username |-> username,
     password |-> password, verify_ssl |-> verify_ssl]

\* The server addresses passed to initialize_client, as <<scheme, rest>>.
BaseUrls == {<<"", "cml.example">>, <<"https://", "cml.example">>}

\* Lines 153-155: a base_url without a scheme gets https://.
FixUrl(base_url) ==
    IF base_url[1] \in {"http://", "https://"} THEN base_url
    ELSE <<"https://", base_url[2]>>

\* initialize_client(...) up to its first await (lines 152-162): a new CMLAuth
\* replaces the global, and authenticate() is called on it.
initialize_client(base_url, verify_ssl) ==
    /\ ToolIdle /\ NoCallRunning
    /\ cml_auth' = CMLAuth(FixUrl(base_url), "admin", "secret", verify_ssl)
    /\ token' = None
    /\ clientAuth' = None
    /\ fr' = [fr EXCEPT ![Main] =
                 [SendLogin([IdleFrame EXCEPT !.fn = "authenticate"], "init")
                    EXCEPT !.a_tok = None, !.a_hdr = None]]
    /\ tool' = NewTool("initialize_client", "")
    /\ now' = 0
    /\ UNCHANGED nodeState

\* initialize_client after authenticate() returned or raised (lines 162-171).
initialize_client_return ==
    /\ tool.name = "initialize_client" /\ tool.pc = "await"
    /\ Done(Main)
    /\ tool' = ToolReturn(tool,
                  CASE fr[Main].pc = "returned" ->
                          Value("Successfully authenticated with CML", <<>>)
                    [] fr[Main].result.kind = "HTTPStatusError" ->
                          ErrorValue("Authentication failed")
                    [] OTHER -> ErrorValue("Error connecting to CML"))
    /\ UNCHANGED <<gwVars, envVars>>

\* The one gateway call of a single-request tool.
ToolCall(name, lab) ==
    CASE name = "get_lab_details" -> <<"GET", LabEndpoint(lab)>>
      [] name = "start_lab" -> <<"PUT", StartEndpoint(lab)>>
      [] name = "get_lab_nodes" -> <<"GET", NodesEndpoint(lab)>>
      [] name = "get_lab_links" -> <<"GET", LinksEndpoint(lab)>>
      [] name = "list_node_definitions" -> <<"GET", NodeDefsEndpoint>>

SimpleTools == {"get_lab_details", "start_lab"}
\* The tools that return a listing.
ListTools == {"get_lab_nodes", "get_lab_links", "list_node_definitions"}

\* A single-request tool up to the first await (lines 294-299, 1038-1043,
\* 391-396, 924-929, 346-351).
simple_tool(name, lab) ==
    /\ ToolIdle /\ NoCallRunning
    /\ IF _check_auth.kind = "error"
       THEN /\ tool' = ToolReturn(NewTool(name, lab), _check_auth)
            /\ UNCHANGED gwVars
       ELSE ToolRequest(NewTool(name, lab), "await",
                        ToolCall(name, lab)[1], ToolCall(name, lab)[2], <<>>)
    /\ now' = 0
    /\ UNCHANGED nodeState

\* response.json(): the parsed body, or a raised JSONDecodeError.
JsonFails(body) == body = NotJson

\* What get_lab_details returns once the gateway call is over (lines 299-303).
LabDetailsResult(f) ==
    IF f.pc = "returned" /\ ~JsonFails(f.result.body)
    THEN Value("lab_details", f.result.body)
    ELSE ErrorValue("Error during get_lab_details")

\* What start_lab returns (lines 1043-1046).
StartLabResult(f) ==
    IF f.pc = "returned" THEN Value("Lab started successfully", <<>>)
    ELSE ErrorValue("Error starting lab")

\* x.get("id") is truthy: x is an object that has a non-empty id.
HasId(body) ==
    Len(body) >= 3 /\ body[1] = "object" /\ body[2] = "id" /\ body[3] # ""

\* result[k] = v on a dict, held as the sequence of its <<key, value>> pairs
\* in the order of first insertion.
SetItem(result, k, v) ==
    IF \E i \in 1..Len(result) : result[i][1] = k
    THEN [i \in 1..Len(result) |-> IF result[i][1] = k THEN <<k, v>> ELSE result[i]]
    ELSE Append(result, <<k, v>>)

\* Variant: the elements without an id are kept, under the key None.
RECURSIVE ListToDict_keepall(_, _)
ListToDict_keepall(list, result) ==
    IF list = <<>> THEN result
    ELSE ListToDict_keepall(Tail(list),
             SetItem(result, IF HasId(Head(list)) THEN Head(list)[3] ELSE "None",
                     Head(list)))

\* The conversion loop of lines 401-408 (and 358-363, 934-941) over a list
\* of objects.
RECURSIVE ListToDict(_, _)
ListToDict(list, result) ==
    IF list = <<>> THEN result
    ELSE ListToDict(Tail(list),
             IF HasId(Head(list)) THEN SetItem(result, Head(list)[3], Head(list))
                                  ELSE result)

\* isinstance(x, list)
IsList(body) == body[1] = "array"

\* node.get("id") raises AttributeError on an element that is no object.
GetRaises(list) == \E i \in 1..Len(list) : list[i][1] # "object"

\* The loop of list_node_definitions over a mapping (lines 366-373): every
\* value is cut down to its description, type and interfaces.
Readable(pairs) ==
    [k \in 1..Len(pairs) |->
        <<pairs[k][1], <<"object", "description", "type", "interfaces">>>>]

\* What a listing tool returns once the gateway call is over (lines 395-411,
\* 928-944, 350-375).
ListResult(name, f) ==
    LET body == f.result.body
        error == CASE name = "get_lab_nodes" -> "Error getting lab nodes"
                   [] name = "get_lab_links" -> "Error getting lab links"
                   [] OTHER -> "Error listing node definitions"
    IN
    CASE f.pc = "raised" \/ JsonFails(body) -> ErrorValue(error)
      [] IsList(body) /\ GetRaises(body[2]) -> ErrorValue(error)
      [] IsList(body) -> Value("listing", ListToDict(body[2], <<>>))
      [] name = "list_node_definitions" -> Value("listing", Readable(body[2]))
      [] OTHER -> Value("listing", body[2])

simple_tool_return ==
    /\ tool.name \in SimpleTools \cup ListTools /\ tool.pc = "await"
    /\ Done(Main)
    /\ tool' = ToolReturn(Resumed(tool),
                  CASE tool.name = "get_lab_details" -> LabDetailsResult(fr[Main])
                    [] tool.name = "start_lab" -> StartLabResult(fr[Main])
                    [] OTHER -> ListResult(tool.name, fr[Main]))
    /\ UNCHANGED <<gwVars, envVars>>


----------------------------------------------------------------------------
(* link_nodes and find_available_interface, as create_ospf_lab and
   create_stp_lab call them *)

\* The labels of the nodes a lab builder creates, in the order it creates
\* them: Router1 and Router2 (lines 1580, 1584), or two, four or six switches
\* (lines 1438-1494).
Labels(t) ==
    IF t.name = "create_ospf_lab" THEN <<"Router1", "Router2">>
    ELSE SubSeq(<<"SW1-Core", "SW2-Core", "SW3-Distribution", "SW4-Distribution",
                  "SW5-Access", "SW6-Access">>,
                1, IF t.num_switches > 4 THEN 6 ELSE IF t.num_switches > 2 THEN 4 ELSE 2)

\* The pairs of nodes a lab builder links, by their place in the list of the
\* nodes created, in the order it links them (lines 1589, 1500-1541).
Links(t) ==
    IF t.name = "create_ospf_lab" THEN << <<1, 2>> >>
    ELSE << <<1, 2>> >>
         \o (IF Len(t.made) >= 4
             THEN << <<1, 3>>, <<1, 4>>, <<2, 3>>, <<2, 4>>, <<3, 4>> >> ELSE <<>>)
         \o (IF Len(t.made) >= 6
             THEN << <<3, 5>>, <<3, 6>>, <<4, 5>>, <<4, 6>>, <<5, 6>> >> ELSE <<>>)

\* Variant: the link names the interface of B first.
LinkData_swapped(interface_id_a, interface_id_b) ==
    <<"src_int", interface_id_b, "dst_int", interface_id_a>>

\* link_data of create_link_v3 (lines 819-822).
LinkData(interface_id_a, interface_id_b) ==
    <<"src_int", interface_id_a, "dst_int", interface_id_b>>

\* find_available_interface up to its first await (lines 757-766), for one
\* side of the link.
find_available_interface(t, side) ==
    ToolRequest([t EXCEPT !.side = side, !.ifaces = <<>>, !.j = 0], "ifaces", "GET",
                InterfacesEndpoint(t.lab, IF side = "a" THEN t.na ELSE t.nb), <<>>)

\* link_nodes up to its first await (lines 893-899).
link_nodes(t, na, nb) ==
    find_available_interface([t EXCEPT !.na = na, !.nb = nb, !.a = "", !.b = "",
                                       !.first = "none"], "a")

\* Variant: create_ospf_lab configures the routers whatever link_nodes returned.
LinkReturn_configure(t, v) ==
    CASE t.name = "create_ospf_lab" ->
            ToolRequest([t EXCEPT !.links = 1, !.j = 1], "config", "PUT",
                        ConfigEndpoint(t.lab, t.made[1]), <<"content", "Router1">>)
      [] t.name = "create_stp_lab" ->
            LET r == [t EXCEPT !.links = @ + 1]
                next == Links(r)[r.links + 1]
            IN
            IF r.links < Len(Links(r))
            THEN link_nodes(r, r.made[next[1]], r.made[next[2]])
            ELSE /\ tool' = ToolReturn(r, Value("success", <<r.made, Len(r.made)>>))
                 /\ UNCHANGED gwVars
      [] OTHER -> /\ tool' = ToolReturn(t, v)
                  /\ UNCHANGED gwVars

\* What follows the return of `v` by link_nodes or create_link_v3: the return
\* of the tool itself; in create_ospf_lab the error or the configuration of
\* Router1 (lines 1590-1608); in create_stp_lab the next link, the result of
\* this one being recorded whatever it is, or the result (lines 1501-1550).
LinkReturn(t, v) ==
    CASE t.name = "create_ospf_lab" ->
            IF v.kind = "error"
            THEN /\ tool' = ToolReturn(t, ErrorValue("Failed to link routers"))
                 /\ UNCHANGED gwVars
            ELSE ToolRequest([t EXCEPT !.links = 1, !.j = 1], "config", "PUT",
                             ConfigEndpoint(t.lab, t.made[1]), <<"content", "Router1">>)
      [] t.name = "create_stp_lab" ->
            LET r == [t EXCEPT !.links = @ + 1]
                next == Links(r)[r.links + 1]
            IN
            IF r.links < Len(Links(r))
            THEN link_nodes(r, r.made[next[1]], r.made[next[2]])
            ELSE /\ tool' = ToolReturn(r, Value("success", <<r.made, Len(r.made)>>))
                 /\ UNCHANGED gwVars
      [] OTHER -> /\ tool' = ToolReturn(t, v)
                  /\ UNCHANGED gwVars

----------------------------------------------------------------------------
(* create_link_v3 *)

Interfaces == {"if1", "if2"}

\* The try body raised: the request did, or response.json() did, or
\* result.get("id") did because the body is no object (lines 825-836).
FirstAttemptRaised(f) ==
    \/ f.pc = "raised"
    \/ JsonFails(f.result.body)
    \/ f.result.body = JsonArray

\* create_link_v3 up to its first await (lines 811-830).
create_link_v3(lab, a, b) ==
    /\ ToolIdle /\ NoCallRunning
    /\ IF _check_auth.kind = "error"
       THEN /\ tool' = ToolReturn(NewTool("create_link_v3", lab), _check_auth)
            /\ UNCHANGED gwVars
       ELSE ToolRequest([NewTool("create_link_v3", lab) EXCEPT !.a = a, !.b = b],
                        "first", "POST", LinksEndpoint(lab),
                        <<"src_int", a, "dst_int", b>>)
    /\ now' = 0
    /\ UNCHANGED nodeState

\* How the first attempt ended: the request raised, the body was no JSON
\* object, the object had no id, or it had one.
FirstOutcome(f) ==
    CASE f.pc = "raised" -> "raised"
      [] HasId(f.result.body) -> "id"
      [] f.result.body = EmptyJson -> "no id"
      [] OTHER -> "unparsed"

\* Variant: the second POST names the two interfaces the other way round.
create_link_v3_first_swapped ==
    /\ tool.pc = "first"
    /\ Done(Main)
    /\ LET t == [Resumed(tool) EXCEPT !.first = FirstOutcome(fr[Main])] IN
       IF FirstAttemptRaised(fr[Main])
       THEN ToolRequest(t, "alt", "POST", LinksEndpoint(t.lab),
                        <<"i1", t.b, "i2", t.a>>)
       ELSE LinkReturn(t, IF HasId(fr[Main].result.body)
                          THEN Value("Created link", fr[Main].result.body)
                          ELSE ErrorValue("Failed to create link, no link ID returned"))
    /\ UNCHANGED envVars

\* After the first POST (lines 832-859): the result, or the second POST with
\* the alternative field names when anything in the try body raised.
create_link_v3_first ==
    /\ tool.pc = "first"
    /\ Done(Main)
    /\ LET t == [Resumed(tool) EXCEPT !.first = FirstOutcome(fr[Main])] IN
       IF FirstAttemptRaised(fr[Main])
       THEN ToolRequest(t, "alt", "POST", LinksEndpoint(t.lab),
                        <<"i1", t.a, "i2", t.b>>)
       ELSE LinkReturn(t, IF HasId(fr[Main].result.body)
                          THEN Value("Created link", fr[Main].result.body)
                          ELSE ErrorValue("Failed to create link, no link ID returned"))
    /\ UNCHANGED envVars

\* Variant: a failed second POST is followed by another attempt.
create_link_v3_alt_again ==
    /\ tool.pc = "alt"
    /\ Done(Main)
    /\ LET t == Resumed(tool) IN
       IF FirstAttemptRaised(fr[Main])
       THEN ToolRequest(t, "alt", "POST", LinksEndpoint(t.lab),
                        <<"src_int", t.a, "dst_int", t.b>>)
       ELSE LinkReturn(t, IF HasId(fr[Main].result.body)
                          THEN Value("Created link using alternative format",
                                     fr[Main].result.body)
                          ELSE ErrorValue("Failed to create link with both formats"))
    /\ UNCHANGED envVars

\* After the second POST (lines 862-877).
create_link_v3_alt ==
    /\ tool.pc = "alt"
    /\ Done(Main)
    /\ LinkReturn(Resumed(tool),
                  CASE FirstAttemptRaised(fr[Main]) ->
                          ErrorValue("Error during create_link")
                    [] HasId(fr[Main].result.body) ->
                          Value("Created link using alternative format",
                                fr[Main].result.body)
                    [] OTHER -> ErrorValue("Failed to create link with both formats"))
    /\ UNCHANGED envVars

----------------------------------------------------------------------------
(* find_available_interface, create_ospf_lab, create_stp_lab *)

\* type == "physical" and is_connected == False (lines 789-790)
Available(body) ==
    Len(body) = 5 /\ body[1] = "object" /\ body[3] = "physical" /\ body[5] = FALSE

\* After the interfaces of a node were asked for (lines 767-785): the error
\* when the request or its parsing raised or the list is empty, else the
\* request for the first interface.
interfaces_listed ==
    /\ tool.pc = "ifaces"
    /\ Done(Main)
    /\ LET t == Resumed(tool)
           body == fr[Main].result.body
       IN
       CASE fr[Main].pc = "raised" \/ JsonFails(body) ->
               LinkReturn(t, ErrorValue("Error during find_available_interface"))
         [] body[2] = <<>> -> LinkReturn(t, ErrorValue("No interfaces found for node"))
         [] OTHER -> ToolRequest([t EXCEPT !.ifaces = body[2], !.j = 1], "iface", "GET",
                                 InterfaceEndpoint(t.lab, body[2][1]), <<>>)
    /\ UNCHANGED envVars

\* After one interface was asked for (lines 780-795, 899-908): the interface
\* is taken when it is physical and not connected, and the other side or
\* create_link_v3 follows; else the next interface is asked for, or the
\* error is returned when none is left.
interface_checked ==
    /\ tool.pc = "iface"
    /\ Done(Main)
    /\ LET t == Resumed(tool)
           body == fr[Main].result.body
           id == t.ifaces[t.j]
       IN
       CASE fr[Main].pc = "raised" \/ JsonFails(body) ->
               LinkReturn(t, ErrorValue("Error during find_available_interface"))
         [] Available(body) /\ t.side = "a" ->
               find_available_interface([t EXCEPT !.a = id], "b")
         [] Available(body) ->
               ToolRequest([t EXCEPT !.b = id], "first", "POST", LinksEndpoint(t.lab),
                           LinkData(t.a, id))
         [] t.j < Len(t.ifaces) ->
               ToolRequest([t EXCEPT !.j = @ + 1], "iface", "GET",
                           InterfaceEndpoint(t.lab, t.ifaces[t.j + 1]), <<>>)
         [] OTHER ->
               LinkReturn(t, ErrorValue("No available physical interface found for node"))
    /\ UNCHANGED envVars

\* A lab builder up to its first await, inside create_lab (lines 1566-1573,
\* 1422-1428, 253-264).
create_lab(t, title, description) ==
    /\ ToolIdle /\ NoCallRunning
    /\ IF _check_auth.kind = "error"
       THEN /\ tool' = ToolReturn(t, _check_auth)
            /\ UNCHANGED gwVars
       ELSE ToolRequest(t, "lab", "POST", LabsEndpoint,
                        <<"title", title, "description", description>>)
    /\ now' = 0
    /\ UNCHANGED nodeState

\* link_nodes called as a tool (lines 893-899).
link_nodes_tool(lab, na, nb) ==
    /\ ToolIdle /\ NoCallRunning
    /\ IF _check_auth.kind = "error"
       THEN /\ tool' = ToolReturn(NewTool("link_nodes", lab), _check_auth)
            /\ UNCHANGED gwVars
       ELSE link_nodes(NewTool("link_nodes", lab), na, nb)
    /\ now' = 0
    /\ UNCHANGED nodeState

create_ospf_lab ==
    create_lab(NewTool("create_ospf_lab", ""),
               "OSPF Network Lab", "Two routers connected via OSPF")

NumSwitches == 1..MaxSwitches

create_stp_lab(num_switches) ==
    create_lab([NewTool("create_stp_lab", "") EXCEPT !.num_switches = num_switches],
               "STP Test Lab", "Spanning Tree Protocol test lab")

\* create_router or create_switch up to the await inside add_node (lines
\* 516-521, 545-561, 440-478), for the next node of the lab.
add_node(t) ==
    ToolRequest(t, "node", "POST", AddNodeEndpoint(t.lab),
                <<"label", Labels(t)[Len(t.made) + 1], "node_definition",
                  IF t.name = "create_ospf_lab" THEN "iosv" ELSE "iosvl2">>)

\* After the POST of create_lab (lines 266-280, 1574-1580, 1429-1438): the
\* error of create_lab is returned as it is, else the first node is created.
lab_created ==
    /\ tool.pc = "lab"
    /\ Done(Main)
    /\ LET t == Resumed(tool)
           body == fr[Main].result.body
       IN
       CASE fr[Main].pc = "raised" \/ JsonFails(body) ->
               /\ tool' = ToolReturn(t, ErrorValue("Error during create_lab"))
               /\ UNCHANGED gwVars
         [] ~HasId(body) ->
               /\ tool' = ToolReturn(t, ErrorValue("Failed to create lab, no lab ID returned"))
               /\ UNCHANGED gwVars
         [] OTHER -> add_node([t EXCEPT !.lab = body[3]])
    /\ UNCHANGED envVars

\* After the POST of add_node (lines 481-494): create_ospf_lab returns the
\* error it finds in the result (lines 1581-1586); create_stp_lab reads
\* ["node_id"] from it, which raises on an error result (lines 1445-1494,
\* 1551-1552).  Else the node is recorded and the next one is created, or
\* the first link is made.
node_created ==
    /\ tool.pc = "node"
    /\ Done(Main)
    /\ LET t == Resumed(tool)
           body == fr[Main].result.body
           r == [t EXCEPT !.made = Append(@, body[3])]
       IN
       CASE fr[Main].pc = "raised" \/ ~HasId(body) ->
               /\ tool' = ToolReturn(t,
                     ErrorValue(CASE t.name = "create_stp_lab" -> "Error during create_stp_lab"
                                  [] Len(t.made) = 0 -> "Failed to create Router1"
                                  [] OTHER -> "Failed to create Router2"))
               /\ UNCHANGED gwVars
         [] Len(r.made) < Len(Labels(r)) -> add_node(r)
         [] OTHER -> link_nodes(r, r.made[Links(r)[1][1]], r.made[Links(r)[1][2]])
    /\ UNCHANGED envVars

\* After a PUT of configure_node (lines 990-998), whose result
\* create_ospf_lab awaits and drops (lines 1608, 1625): the configuration of
\* Router2, or the result (lines 1627-1635).
configure_node_done ==
    /\ tool.pc = "config"
    /\ Done(Main)
    /\ LET t == Resumed(tool) IN
       IF t.j < Len(t.made)
       THEN ToolRequest([t EXCEPT !.j = @ + 1], "config", "PUT",
                        ConfigEndpoint(t.lab, t.made[t.j + 1]), <<"content", "Router2">>)
       ELSE /\ tool' = ToolReturn(t, Value("success", <<t.made, Len(t.made)>>))
            /\ UNCHANGED gwVars
    /\ UNCHANGED envVars

----------------------------------------------------------------------------
(* delete_lab and create_interface *)

\* isinstance(lab_details, dict) and lab_details.get("state") == "STARTED"
\* (lines 324, 692), on what get_lab_details returned.
SaysStarted(lab_details) ==
    lab_details.kind = "value" /\ lab_details.data = LabJson("STARTED")

\* delete_lab or create_interface up to its first await, inside
\* get_lab_details (lines 317-323, 685-691, 294-299).
lab_tool(name, lab, node) ==
    /\ ToolIdle /\ NoCallRunning
    /\ LET t == [NewTool(name, lab) EXCEPT !.na = node, !.was = nodeState[lab]] IN
       IF _check_auth.kind = "error"
       THEN /\ tool' = ToolReturn(t, _check_auth)
            /\ UNCHANGED gwVars
       ELSE ToolRequest(t, "details", "GET", LabEndpoint(lab), <<>>)
    /\ now' = 0
    /\ UNCHANGED nodeState

delete_lab(lab) == lab_tool("delete_lab", lab, "")

create_interface(lab, node) == lab_tool("create_interface", lab, node)

\* delete_lab after get_lab_details (lines 323-330): stop_lab when the
\* details say STARTED, else the DELETE.
delete_lab_details_done ==
    /\ tool.name = "delete_lab" /\ tool.pc = "details"
    /\ Done(Main)
    /\ LET started == SaysStarted(LabDetailsResult(fr[Main]))
           t == [Resumed(tool) EXCEPT !.said = IF started THEN "STARTED" ELSE "other"]
       IN
       IF started
       THEN ToolRequest(t, "stop", "PUT", StopEndpoint(t.lab), <<>>)
       ELSE ToolRequest(t, "delete", "DELETE", LabEndpoint(t.lab), <<>>)
    /\ UNCHANGED envVars

\* After stop_lab, whose result is dropped (lines 326-328, 1123-1126):
\* asyncio.sleep(2) begins.
delete_lab_stop_done ==
    /\ tool.name = "delete_lab" /\ tool.pc = "stop"
    /\ Done(Main)
    /\ tool' = [Resumed(tool) EXCEPT !.pc = "sleep", !.wake = now + 2,
                                     !.sleeps = @ + 1]
    /\ UNCHANGED <<gwVars, envVars>>

\* The sleep ends and the DELETE leaves (lines 328-330).
delete_lab_sleep_done ==
    /\ tool.name = "delete_lab" /\ tool.pc = "sleep"
    /\ ToolRequest(tool, "delete", "DELETE", LabEndpoint(tool.lab), <<>>)
    /\ now' = tool.wake
    /\ UNCHANGED nodeState

\* After the DELETE (lines 330-333).
delete_lab_done ==
    /\ tool.name = "delete_lab" /\ tool.pc = "delete"
    /\ Done(Main)
    /\ tool' = ToolReturn(Resumed(tool),
                  IF fr[Main].pc = "returned" THEN Value("deleted successfully", <<>>)
                  ELSE ErrorValue("Error deleting lab"))
    /\ UNCHANGED <<gwVars, envVars>>

CANNOT_CREATE ==
    "Cannot create interfaces while the lab is running. Please stop the lab first."

\* create_interface after get_lab_details (lines 691-710): the error when
\* the details say STARTED, else the POST.
create_interface_details_done ==
    /\ tool.name = "create_interface" /\ tool.pc = "details"
    /\ Done(Main)
    /\ LET started == SaysStarted(LabDetailsResult(fr[Main]))
           t == [Resumed(tool) EXCEPT !.said = IF started THEN "STARTED" ELSE "other"]
       IN
       IF started
       THEN /\ tool' = ToolReturn(t, ErrorValue(CANNOT_CREATE))
            /\ UNCHANGED gwVars
       ELSE ToolRequest(t, "create", "POST", NewInterfaceEndpoint(t.lab),
                        <<"node", t.na, "slot", 4>>)
    /\ UNCHANGED envVars

\* After the POST (lines 713-741): a non-empty list, or an object with an
\* id, is a success.
create_interface_done ==
    /\ tool.name = "create_interface" /\ tool.pc = "create"
    /\ Done(Main)
    /\ LET body == fr[Main].result.body IN
       tool' = ToolReturn(Resumed(tool),
                  CASE fr[Main].pc = "raised" \/ JsonFails(body) ->
                          ErrorValue("Error during create_interface")
                    [] IsList(body) /\ Len(body[2]) > 0 -> Value("success", body)
                    [] HasId(body) -> Value("success", body)
                    [] OTHER -> ErrorValue("Failed to create interface, unexpected response format"))
    /\ UNCHANGED <<gwVars, envVars>>

----------------------------------------------------------------------------
(* wait_for_lab_nodes *)

\* The timeouts passed to wait_for_lab_nodes: below zero, zero, the smallest
\* above zero, and the two largest, which lie on both sides of a multiple of
\* the sleep.
Timeouts == {0 - 1, 0, 1, MaxTimeout - 1, MaxTimeout}

READY == "All nodes in the lab are initialized and ready"
TIMED_OUT == "Timeout reached. Some nodes may not be fully initialized."

\* Lines 1097-1100.
PollResult(t) == ToolReturn(t, Value(IF t.all_ready THEN READY ELSE TIMED_OUT, <<>>))

\* Variant: a round also starts when the elapsed time equals the timeout.
LoopContinues_inclusive(t, time) ==
    ~t.all_ready /\ (time - t.start_time) <= t.timeout

\* `while not all_ready and (time() - start_time) < timeout` (line 1081).
LoopContinues(t, time) == ~t.all_ready /\ (time - t.start_time) < t.timeout

\* The loop test at time `time` and what follows it up to the next await: the
\* status request for the first node of a new round, or the return (lines
\* 1081-1085, 1097-1100).  A round over no node leaves all_ready true.
LoopTest(t, time) ==
    IF LoopContinues(t, time)
    THEN LET r == [t EXCEPT !.all_ready = TRUE, !.rounds = @ + 1, !.seen = <<>>] IN
         IF r.nodes = <<>>
         THEN /\ tool' = PollResult(r)
              /\ UNCHANGED gwVars
         ELSE ToolRequest([r EXCEPT !.i = 1], "poll",
                          "GET", NodeEndpoint(r.lab, r.nodes[1]), <<>>)
    ELSE /\ tool' = PollResult(t)
         /\ UNCHANGED gwVars

\* wait_for_lab_nodes up to its first await, inside get_lab_details
\* (lines 1061-1067, 294-299).
wait_for_lab_nodes(lab, timeout) ==
    /\ ToolIdle /\ NoCallRunning
    /\ IF _check_auth.kind = "error"
       THEN /\ tool' = ToolReturn(NewTool("wait_for_lab_nodes", lab), _check_auth)
            /\ UNCHANGED gwVars
       ELSE ToolRequest([NewTool("wait_for_lab_nodes", lab) EXCEPT !.timeout = timeout],
                        "details", "GET", LabEndpoint(lab), <<>>)
    /\ now' = 0
    /\ UNCHANGED nodeState

\* get_lab_details returned (lines 1067-1074, 391-396).
wait_details_done ==
    /\ tool.name = "wait_for_lab_nodes" /\ tool.pc = "details"
    /\ Done(Main)
    /\ LET t == Resumed(tool)
           lab_details == LabDetailsResult(fr[Main])
       IN  IF lab_details.kind = "error" \/ lab_details.data # LabJson("STARTED")
           THEN /\ tool' = ToolReturn(t,
                             Value("Lab is not in STARTED state. Start the lab first.", <<>>))
                /\ UNCHANGED gwVars
           ELSE ToolRequest(t, "nodes", "GET", NodesEndpoint(t.lab), <<>>)
    /\ UNCHANGED envVars

\* get_lab_nodes returned (lines 397-411, 1075-1085): its error string is
\* returned as it is; otherwise the clock is read and the loop is entered.
wait_nodes_done ==
    /\ tool.name = "wait_for_lab_nodes" /\ tool.pc = "nodes"
    /\ Done(Main)
    /\ LET t == Resumed(tool)
           nodes == ListResult("get_lab_nodes", fr[Main])
           ids == [k \in 1..Len(nodes.data) |-> nodes.data[k][1]]
       IN  IF nodes.kind = "error"
           THEN /\ tool' = ToolReturn(t, nodes)
                /\ UNCHANGED gwVars
           ELSE LoopTest([t EXCEPT !.nodes = ids,
                                   !.start_time = now, !.all_ready = FALSE,
                                   !.polling = TRUE,
                                   !.stayed = \A k \in 1..Len(ids) :
                                                nodeState[ids[k]] = "STARTED"],
                         now)
    /\ UNCHANGED envVars

\* Variant: a failed status request counts as a node that is not ready, and
\* the poll goes on.
wait_node_done_skip(took) ==
    /\ tool.name = "wait_for_lab_nodes" /\ tool.pc = "poll"
    /\ Done(Main)
    /\ now' = now + took
    /\ LET t == Resumed(tool)
           state == IF fr[Main].pc = "raised" \/ JsonFails(fr[Main].result.body)
                    THEN "UNKNOWN" ELSE fr[Main].result.body[3]
           u == [t EXCEPT !.all_ready = @ /\ state = "STARTED",
                          !.seen = Append(@, state)]
       IN  IF u.i < Len(u.nodes)
           THEN ToolRequest([u EXCEPT !.i = @ + 1], "poll", "GET",
                            NodeEndpoint(u.lab, u.nodes[u.i + 1]), <<>>)
           ELSE /\ UNCHANGED gwVars
                /\ IF u.all_ready
                   THEN tool' = PollResult(u)
                   ELSE tool' = [u EXCEPT !.pc = "sleep", !.sleeps = @ + 1,
                                          !.wake = now + took + POLL_INTERVAL]
    /\ UNCHANGED nodeState

\* Variant: the round stops at the first node that is not STARTED.
wait_node_done_break(took) ==
    /\ tool.name = "wait_for_lab_nodes" /\ tool.pc = "poll"
    /\ Done(Main)
    /\ now' = now + took
    /\ LET t == Resumed(tool) IN
       IF fr[Main].pc = "raised" \/ JsonFails(fr[Main].result.body)
       THEN /\ tool' = ToolReturn(t, ErrorValue("Error waiting for nodes"))
            /\ UNCHANGED gwVars
       ELSE LET state == fr[Main].result.body[3]
                u == [t EXCEPT !.all_ready = @ /\ state = "STARTED",
                               !.seen = Append(@, state)]
            IN  IF u.i < Len(u.nodes) /\ u.all_ready
                THEN ToolRequest([u EXCEPT !.i = @ + 1], "poll", "GET",
                                 NodeEndpoint(u.lab, u.nodes[u.i + 1]), <<>>)
                ELSE /\ UNCHANGED gwVars
                     /\ IF u.all_ready
                        THEN tool' = PollResult(u)
                        ELSE tool' = [u EXCEPT !.pc = "sleep", !.sleeps = @ + 1,
                                               !.wake = now + took + POLL_INTERVAL]
    /\ UNCHANGED nodeState

\* The status of node i arrived, `took` seconds after it was asked for
\* (lines 1085-1095, 1101-1104).
wait_node_done(took) ==
    /\ tool.name = "wait_for_lab_nodes" /\ tool.pc = "poll"
    /\ Done(Main)
    /\ now' = now + took
    /\ LET t == Resumed(tool) IN
       IF fr[Main].pc = "raised" \/ JsonFails(fr[Main].result.body)
       THEN /\ tool' = ToolReturn(t, ErrorValue("Error waiting for nodes"))
            /\ UNCHANGED gwVars
       ELSE LET state == fr[Main].result.body[3]
                u == [t EXCEPT !.all_ready = @ /\ state = "STARTED",
                               !.seen = Append(@, state)]
            IN  IF u.i < Len(u.nodes)
                THEN ToolRequest([u EXCEPT !.i = @ + 1], "poll", "GET",
                                 NodeEndpoint(u.lab, u.nodes[u.i + 1]), <<>>)
                ELSE /\ UNCHANGED gwVars
                     /\ IF u.all_ready
                        THEN tool' = PollResult(u)
                        ELSE tool' = [u EXCEPT !.pc = "sleep", !.sleeps = @ + 1,
                                               !.wake = now + took + POLL_INTERVAL]
    /\ UNCHANGED nodeState

\* asyncio.sleep(5) is over, at tool.wake or a little later (lines 1095, 1081).
wait_sleep_done ==
    /\ tool.name = "wait_for_lab_nodes" /\ tool.pc = "sleep"
    /\ \E late \in 0..MaxLatency :
          /\ now' = tool.wake + late
          /\ LoopTest(tool, tool.wake + late)
    /\ UNCHANGED nodeState

\* The server: a node of the lab changes state while the poll is running.
NodeStateChange(n, st) ==
    /\ tool.name = "wait_for_lab_nodes" /\ ~ToolIdle
    /\ nodeState[n] # st
    /\ nodeState' = [nodeState EXCEPT ![n] = st]
    /\ tool' = [tool EXCEPT !.stayed =
                  @ /\ ~(st # "STARTED" /\ \E k \in 1..Len(tool.nodes) : tool.nodes[k] = n)]
    /\ UNCHANGED <<gwVars, now>>

----------------------------------------------------------------------------
(* The gateway and its single-request callers *)

Init ==
    /\ cml_auth = NoSession
    /\ token = None
    /\ clientAuth = None
    /\ fr = [c \in Calls |-> IdleFrame]
    /\ tool = IdleTool
    /\ now = 0
    /\ nodeState = [x \in Labs \cup Nodes |-> IF x \in Labs THEN "STARTED" ELSE "BOOTED"]

\* Somebody starts or stops the lab while no tool runs.
LabStateChange(lab, st) ==
    /\ ToolIdle
    /\ nodeState[lab] # st
    /\ nodeState' = [nodeState EXCEPT ![lab] = st]
    /\ UNCHANGED <<gwVars, tool, now>>

\* What the server does to the lab when it answers the call of c with a
\* success: PUT .../start starts it, PUT .../stop stops it.
ServerEffect(c) ==
    LET f == fr[c]
        passed == f.pc \in {"await1", "await2"} /\ fr'[c].pc = "returned"
    IN
    nodeState' =
        CASE passed /\ f.method = "PUT" /\ f.endpoint \in {StartEndpoint(l) : l \in Labs} ->
                [nodeState EXCEPT ![f.endpoint[2]] = "STARTED"]
          [] passed /\ f.method = "PUT" /\ f.endpoint \in {StopEndpoint(l) : l \in Labs} ->
                [nodeState EXCEPT ![f.endpoint[2]] = "STOPPED"]
          [] OTHER -> nodeState

\* The server answers the HTTP call that gateway call c is waiting for.
Answer(c, loginBodies) ==
    \/ \E r \in OutcomesOf("POST", LOGIN, loginBodies) : LoginResponds(c, r)
    \/ \E r \in OutcomesOf("GET", AUTHOK, loginBodies) : VerifyResponds(c, r)
    \/ \E r \in OutcomesOf(fr[c].method, fr[c].endpoint, loginBodies) : Respond1(c, r)
    \/ \E r \in OutcomesOf(fr[c].method, fr[c].endpoint, loginBodies) : Respond2(c, r)

ServerResponds(c) ==
    /\ Answer(c, LoginBodies)
    /\ ServerEffect(c)
    /\ UNCHANGED <<tool, now>>

Next ==
    \/ \E base_url \in BaseUrls, verify_ssl \in BOOLEAN :
          initialize_client(base_url, verify_ssl)
    \/ initialize_client_return
    \/ \E name \in SimpleTools, lab \in Labs : simple_tool(name, lab)
    \/ simple_tool_return
    \/ ServerResponds(Main)

Spec == Init /\ [][Next]_vars

----------------------------------------------------------------------------
(* All tools.  The token's text plays no part here: every login answers with *)
(* the same body.                                                            *)

ToolLoginBodies == {<<DQUOTE, "a", DQUOTE>>}

ToolServerResponds(c) ==
    /\ Answer(c, ToolLoginBodies)
    /\ ServerEffect(c)
    /\ UNCHANGED <<tool, now>>

NextTools ==
    \/ initialize_client(<<"https://", "cml.example">>, TRUE)
    \/ initialize_client_return
    \/ \E name \in SimpleTools \cup ListTools, lab \in Labs : simple_tool(name, lab)
    \/ simple_tool_return
    \/ \E lab \in Labs, a \in Interfaces :
          \E b \in Interfaces \ {a} : create_link_v3(lab, a, b)
    \/ create_link_v3_first
    \/ create_link_v3_alt
    \/ \E lab \in Labs, timeout \in Timeouts : wait_for_lab_nodes(lab, timeout)
    \/ wait_details_done
    \/ wait_nodes_done
    \/ \E took \in 0..MaxLatency : wait_node_done(took)
    \/ wait_sleep_done
    \/ \E n \in Nodes, st \in NodeStates : NodeStateChange(n, st)
    \/ \E lab \in Labs, st \in LabStates : LabStateChange(lab, st)
    \/ ToolServerResponds(Main)

SpecTools == Init /\ [][NextTools]_vars

----------------------------------------------------------------------------
(* wait_for_lab_nodes alone, with the scheduling that its termination rests *)
(* on: every HTTP call is answered, the event loop resumes a coroutine      *)
(* whose awaited call is over, and a sleep ends.                            *)

PollStep ==
    \/ initialize_client_return
    \/ wait_details_done
    \/ wait_nodes_done
    \/ \E took \in 0..MaxLatency : wait_node_done(took)
    \/ wait_sleep_done
    \/ ToolServerResponds(Main)

NextPoll ==
    \/ initialize_client(<<"https://", "cml.example">>, TRUE)
    \/ \E lab \in Labs, timeout \in Timeouts : wait_for_lab_nodes(lab, timeout)
    \/ PollStep
    \/ \E n \in Nodes, st \in NodeStates : NodeStateChange(n, st)

SpecPoll == Init /\ [][NextPoll]_vars /\ WF_vars(PollStep)

----------------------------------------------------------------------------
(* Two request() calls on one session, interleaved at their awaits: two    *)
(* tools that the host calls at the same time.  Every login answers with   *)
(* one of two tokens.                                                      *)

TwoLoginBodies == {<<DQUOTE, "a", DQUOTE>>, <<"a", "a">>}

\* request() is called in frame c, once, while the other call may be under way.
RequestCall(c) ==
    /\ cml_auth.exists /\ ToolIdle
    /\ Done(c) /\ fr[c].fn # "request"
    /\ RequestEnter(c, "GET", LabEndpoint("L1"), <<>>)
    /\ UNCHANGED <<tool, envVars>>

TwoServerResponds(c) ==
    /\ Answer(c, TwoLoginBodies)
    /\ ServerEffect(c)
    /\ UNCHANGED <<tool, now>>

\* The session is set up before the two calls are made.
TwoInitialize ==
    /\ \A c \in Calls : fr[c].fn # "request"
    /\ initialize_client(<<"https://", "cml.example">>, TRUE)

NextTwo ==
    \/ TwoInitialize
    \/ initialize_client_return
    \/ \E c \in Calls : RequestCall(c)
    \/ \E c \in Calls : TwoServerResponds(c)

SpecTwo == Init /\ [][NextTwo]_vars

\* The tools that make several gateway calls in a fixed order, run one after
\* the other on an initialised client.
NextLabs ==
    \/ initialize_client(<<"https://", "cml.example">>, TRUE)
    \/ initialize_client_return
    \/ \E lab \in Labs, na \in Nodes : \E nb \in Nodes \ {na} : link_nodes_tool(lab, na, nb)
    \/ create_ospf_lab
    \/ \E num_switches \in NumSwitches : create_stp_lab(num_switches)
    \/ lab_created
    \/ node_created
    \/ interfaces_listed
    \/ interface_checked
    \/ create_link_v3_first
    \/ create_link_v3_alt
    \/ configure_node_done
    \/ \E lab \in Labs : delete_lab(lab)
    \/ delete_lab_details_done
    \/ delete_lab_stop_done
    \/ delete_lab_sleep_done
    \/ delete_lab_done
    \/ \E lab \in Labs, node \in Nodes : create_interface(lab, node)
    \/ create_interface_details_done
    \/ create_interface_done
    \/ \E lab \in Labs, st \in LabStates : LabStateChange(lab, st)
    \/ ToolServerResponds(Main)

SpecLabs == Init /\ [][NextLabs]_vars

----------------------------------------------------------------------------
(* Properties of the gateway, checked under Spec *)

Is401(r) == r.kind = "response" /\ r.status = 401
Is2xx(r) == r.kind = "response" /\ r.status \in 200..299
BearerOf(t) == <<"B", "e", "a", "r", "e", "r", " ">> \o t

RequestFrames == {c \in Calls : fr[c].fn = "request"}
Over(f) == f.pc \in {"returned", "raised"}
First401(f) == Len(f.resps) >= 1 /\ Is401(f.resps[1])
\* authenticate() calls, returns and token stores after the first request left
AuthsAfterFirst(f) == f.nAuth - f.sent[1].nAuth
AuthReturnsAfterFirst(f) == f.nAuthRet - f.sent[1].nAuthRet
StoresAfterFirst(f) == f.nStore - f.sent[1].nStore
Retries(f) == Len(f.sent) - 1

\* C1 as stated: in a finished request() whose first response was 401, exactly
\* one authenticate() and exactly one retried request followed; a second 401
\* ends the call with an error, and there is no third request and no second
\* re-authentication.
C1_ExactlyOneRetry ==
    \A c \in RequestFrames :
        LET f == fr[c] IN
        (Over(f) /\ First401(f)) =>
            /\ AuthsAfterFirst(f) = 1
            /\ Retries(f) = 1
            /\ (Is401(f.resps[2]) => f.pc = "raised")

\* C1 as amended: once the first response is 401, exactly one authenticate()
\* call follows; exactly one retried request follows when that authenticate()
\* returns and none when it raises; a second 401 ends the call with the
\* HTTPStatusError of the retried request; never a third request, never a
\* second re-authentication.
C1_ReauthOnceRetryAtMostOnce ==
    \A c \in RequestFrames :
        LET f == fr[c] IN
        /\ Len(f.sent) <= 2
        /\ Len(f.resps) <= Len(f.sent)
        /\ First401(f) =>
            /\ AuthsAfterFirst(f) = 1
            /\ Retries(f) = AuthReturnsAfterFirst(f)
            /\ (Over(f) /\ ~Passes(f.loginResp)) => (Retries(f) = 0 /\ f.pc = "raised")
            /\ (Over(f) /\ Passes(f.loginResp)) => (Retries(f) = 1 /\ Len(f.resps) = 2)
            /\ (Len(f.resps) = 2 /\ Is401(f.resps[2])) =>
                  /\ f.pc = "raised"
                  /\ f.result.kind = "HTTPStatusError"
                  /\ f.result.status = 401
        /\ (Len(f.resps) >= 1 /\ ~First401(f)) => (Len(f.sent) = 1 /\ Over(f))

\* A request() ended by a second 401.
C1_Witness ==
    \E c \in RequestFrames :
        /\ Len(fr[c].resps) = 2 /\ Is401(fr[c].resps[1]) /\ Is401(fr[c].resps[2])
        /\ fr[c].pc = "raised" /\ Len(fr[c].sent) = 2

\* C2: a request() entered without a token (self.token is None or empty)
\* performs exactly one authenticate(), which has returned when the first
\* endpoint request leaves; entered with a token, it performs none before the
\* first request.
C2_AuthenticateBeforeFirstRequest ==
    \A c \in RequestFrames :
        LET f == fr[c] IN
        /\ (f.tok0 = None \/ f.tok0 = <<>>) =>
              /\ f.nAuth >= 1
              /\ Len(f.sent) = 0 => (f.nAuth = 1 /\ f.nAuthRet = 0)
              /\ Len(f.sent) >= 1 => (f.sent[1].nAuth = 1 /\ f.sent[1].nAuthRet = 1)
        /\ (f.tok0 # None /\ f.tok0 # <<>>) =>
              /\ Len(f.sent) >= 1
              /\ f.sent[1].nAuth = 0

\* A first request that left after the one up-front authenticate().
C2_Witness ==
    \E c \in RequestFrames :
        /\ fr[c].tok0 = None /\ Len(fr[c].sent) >= 1
        /\ fr[c].sent[1].nAuthRet = 1

\* C3 as stated: a request() that got 401 and then a success returns the
\* retried response, and the token was stored exactly once during the call and
\* equals the token of the re-authentication login.
C3_TokenStoredOnce ==
    \A c \in RequestFrames :
        LET f == fr[c] IN
        (f.pc = "returned" /\ First401(f)) =>
            /\ f.result = Returned(f.method, f.endpoint, f.resps[2])
            /\ f.nStore = 1
            /\ token = strip_quotes(f.loginResp.body)

\* C3 as amended: such a call returns the retried response; the token is
\* stored exactly once after the first response, which makes one store in the
\* call when it was entered with a token and two when it was entered without;
\* the stored token is the one of the re-authentication login.
C3_RetrySuccess ==
    \A c \in RequestFrames :
        LET f == fr[c] IN
        (Over(f) /\ First401(f) /\ Len(f.resps) = 2 /\ Is2xx(f.resps[2])) =>
            /\ f.pc = "returned"
            /\ f.result.kind = "response"
            /\ f.result.status = f.resps[2].status
            /\ f.result.body = f.resps[2].body
            /\ StoresAfterFirst(f) = 1
            /\ f.nStore = (IF f.tok0 # None /\ f.tok0 # <<>> THEN 1 ELSE 2)
            /\ token = strip_quotes(f.loginResp.body)
            /\ token = f.sent[2].tok

C3_Witness ==
    \E c \in RequestFrames :
        /\ fr[c].pc = "returned" /\ First401(fr[c]) /\ Is2xx(fr[c].resps[2])
        /\ fr[c].nStore = 1
        /\ token # fr[c].tok0

\* C4: every endpoint request carries Authorization: Bearer <t> with t the token
\* the session holds when the request leaves; a retried request carries the
\* token stored by the re-authentication.
C4_BearerCurrentToken ==
    \A c \in RequestFrames :
        \A i \in 1..Len(fr[c].sent) :
            LET s == fr[c].sent[i] IN
            /\ s.tok # None
            /\ s.hdr = BearerOf(s.tok)
            /\ s.nAuthRet > 0 => s.tok = s.loginTok
            /\ i = 2 => s.nAuthRet > fr[c].sent[1].nAuthRet

\* The scenario of the spec: token abc123 stored by an earlier authenticate(),
\* and a retried request that carries another token than the first one.
C4_Witness ==
    \E c \in RequestFrames :
        /\ Len(fr[c].sent) = 2
        /\ fr[c].sent[1].nAuth = 0
        /\ fr[c].sent[1].hdr = <<"B", "e", "a", "r", "e", "r", " ", "a", "b", "c", "1", "2", "3">>
        /\ fr[c].sent[2].hdr = <<"B", "e", "a", "r", "e", "r", " ", "a">>

\* C5: when the login of an authenticate() is answered with a non-success
\* status (or fails in transport), authenticate() raises that error, the token
\* and the client's default Authorization header are what they were when it
\* was entered, and no verification call was made.
C5_LoginRejected ==
    \A c \in Calls :
        LET f == fr[c] IN
        (f.loginResp.kind # "none" /\ ~Is2xx(f.loginResp)) =>
            /\ f.pc = "raised"
            /\ f.result.kind = (IF f.loginResp.kind = "response"
                                THEN "HTTPStatusError" ELSE "TransportError")
            /\ f.result.endpoint = LOGIN
            /\ f.result.status = f.loginResp.status
            /\ token = f.a_tok
            /\ clientAuth = f.a_hdr
            /\ f.nVerify = f.a_nVerify
            /\ f.nLogin = f.nVerify + 1

\* A rejected re-authentication on a session that holds a token.
C5_Witness ==
    \E c \in RequestFrames :
        /\ Is401(fr[c].loginResp) /\ fr[c].pc = "raised"
        /\ token # None /\ token # <<>>

\* C6: when the login succeeded and the verification call failed, authenticate()
\* has returned the stored token: the token is the login's, nothing was raised
\* by authenticate(), and its caller went on.
C6_VerificationFailureIgnored ==
    \A c \in Calls :
        LET f == fr[c] IN
        (f.verifyResp.kind # "none" /\ ~Is2xx(f.verifyResp)) =>
            /\ f.a_ret = strip_quotes(f.loginResp.body)
            /\ token = f.a_ret
            /\ clientAuth = BearerOf(token)
            /\ f.pc # "verify"
            /\ f.pc = "raised" => (f.fn = "request" /\ f.result.endpoint = f.endpoint)
            /\ f.fn = "authenticate" => (f.pc = "returned" /\ f.result.body = token)
            /\ f.fn = "request" => Len(f.sent) = f.nAuthRet + (IF Truthy(f.tok0) THEN 1 ELSE 0)

C6_Witness ==
    \E c \in Calls :
        /\ fr[c].fn = "authenticate" /\ fr[c].pc = "returned"
        /\ fr[c].verifyResp = TransportError
        /\ tool.pc = "done" /\ tool.result.kind = "value"

\* C7: the stored token is None or a non-empty text.
C7_TokenAbsentOrNonEmpty == token = None \/ Len(token) > 0

\* C8: request() returns only a 2xx response, the last one received; a final
\* response that is not 2xx (the first one when it is not 401, or the retried
\* one) ends the call with an HTTPStatusError carrying the method, the endpoint
\* and the status of that request.
C8_ReturnOnlySuccess ==
    \A c \in RequestFrames :
        LET f == fr[c]
            n == Len(f.resps)
            final == n = 2 \/ (n = 1 /\ ~Is401(f.resps[1]))
        IN
        /\ f.pc = "returned" =>
              /\ final /\ Is2xx(f.resps[n])
              /\ f.result.kind = "response"
              /\ f.result.status = f.resps[n].status
        /\ (final /\ f.resps[n].kind = "response" /\ ~Is2xx(f.resps[n])) =>
              /\ f.pc = "raised"
              /\ f.result.kind = "HTTPStatusError"
              /\ f.result.method = f.method
              /\ f.result.endpoint = f.endpoint
              /\ f.result.status = f.resps[n].status
              /\ f.sent[n].method = f.method /\ f.sent[n].endpoint = f.endpoint

\* A retried request answered 500.
C8_Witness ==
    \E c \in RequestFrames :
        /\ Len(fr[c].resps) = 2 /\ fr[c].resps[2].kind = "response"
        /\ fr[c].resps[2].status = 500
        /\ fr[c].pc = "raised" /\ fr[c].result.status = 500

----------------------------------------------------------------------------
(* Properties of the tools, checked under SpecTools *)

\* The interface ids, or whatever else a payload names, without the field names.
Arguments(payload) == IF payload = <<>> THEN <<>> ELSE <<payload[2], payload[4]>>

\* Two gateway calls of one tool that ask the server for the same thing.
SameCall(x, y) ==
    /\ x.method = y.method
    /\ x.endpoint = y.endpoint
    /\ Arguments(x.payload) = Arguments(y.payload)

\* Gateway call i of the running tool raised.
Failed(i) == i <= Len(tool.outs) /\ tool.outs[i].pc = "raised"
\* It raised the error of its own endpoint request: a non-success status after
\* the gateway's 401 retry, or a transport error.
EndpointFailed(i) == Failed(i) /\ tool.outs[i].endpoint = tool.calls[i].endpoint

\* The gateway sends a request a second time only after a 401 response.
GatewayRetriesOnly401 ==
    \A c \in RequestFrames :
        /\ Len(fr[c].sent) <= 2
        /\ Len(fr[c].sent) = 2 => Is401(fr[c].resps[1])

PollOver ==
    tool.name = "wait_for_lab_nodes" /\ tool.pc = "done" /\ tool.polling

\* C10: on a lab in STARTED state, for every timeout and every node set:
\* when every node has been STARTED since the poll began and no request failed,
\* wait_for_lab_nodes returns 'all ready'; it returns 'timed out' only when the
\* deadline has passed and some node was seen not STARTED; it returns
\* 'all ready' only after a round in which every node was seen STARTED.
C10_PollOutcome ==
    PollOver =>
        /\ (tool.stayed /\ tool.result.kind = "value") => tool.result.text = READY
        /\ tool.result.text = TIMED_OUT =>
              /\ now - tool.start_time >= tool.timeout
              /\ \E k \in 1..Len(tool.seen) : tool.seen[k] # "STARTED"
        /\ tool.result.text = READY =>
              /\ Len(tool.seen) = Len(tool.nodes)
              /\ \A k \in 1..Len(tool.seen) : tool.seen[k] = "STARTED"

\* The same statement for the timeouts above zero only, where the code meets it.
C10_PollOutcomePositiveTimeout == tool.timeout > 0 => C10_PollOutcome

\* Gateway call i of the running wait_for_lab_nodes is a node status request.
StatusRequest(i) ==
    /\ tool.name = "wait_for_lab_nodes"
    /\ i <= Len(tool.calls)
    /\ tool.calls[i].endpoint \in {NodeEndpoint(tool.lab, n) : n \in Nodes}

\* C11: once a node status request of the poll has failed (its gateway call
\* raised: transport error, non-success status after the gateway's retry, or a
\* failed re-authentication), the poll is over: that request is the last one,
\* no sleep follows the round it belongs to, and the result is the error,
\* neither 'all ready' nor 'timed out'.
C11_PollAbortsOnError ==
    \A i \in 1..Len(tool.outs) :
        (StatusRequest(i) /\ Failed(i)) =>
            /\ i = Len(tool.outs)
            /\ Len(tool.calls) = i
            /\ tool.pc = "done"
            /\ tool.sleeps = tool.rounds - 1
            /\ tool.result.kind = "error"
            /\ tool.result.text = "Error waiting for nodes"
            /\ tool.result.text \notin {READY, TIMED_OUT}

\* A status request that failed in the second round, after a sleep, on the
\* second node of the lab.
C11_Witness ==
    /\ tool.name = "wait_for_lab_nodes" /\ tool.pc = "done"
    /\ tool.rounds = 2 /\ tool.sleeps = 1
    /\ Len(tool.nodes) = 2 /\ tool.i = 2
    /\ StatusRequest(Len(tool.outs)) /\ EndpointFailed(Len(tool.outs))
    /\ tool.result.kind = "error"

\* A gateway call of the tool that is over raised.
SomeCallFailed == \E i \in 1..Len(tool.outs) : Failed(i)

\* C12: a tool in which a gateway call raised (authentication or request
\* error) ends by returning a value that carries the error description: an
\* error string or an error mapping.
C12_ErrorsReturned ==
    (tool.pc = "done" /\ SomeCallFailed) => tool.result.kind = "error"

\* The part of C12 that the code meets: whatever the gateway raises, the tool
\* ends with a returned value, and a tool whose last gateway call raised
\* returns the error.
C12_NothingRaisedByTools ==
    /\ tool.pc = "done" => tool.result.kind \in {"value", "error"}
    /\ (tool.pc = "done" /\ tool.outs # <<>> /\ Failed(Len(tool.outs))
          /\ tool.name # "wait_for_lab_nodes") => tool.result.kind = "error"

\* A listing tool is over and the gateway returned a 2xx response with a
\* parsed body.
ListingOver ==
    /\ tool.name \in ListTools /\ tool.pc = "done"
    /\ fr[Main].pc = "returned" /\ fr[Main].result.body # NotJson

\* The elements of a list that carry a non-empty id.
WithId(list) ==
    {i \in 1..Len(list) : /\ list[i][1] = "object" /\ Len(list[i]) >= 3
                          /\ list[i][2] = "id" /\ list[i][3] # ""}

\* `d` is the id-keyed mapping of `list`: its keys are the non-empty ids of
\* the elements, without repetition, and each key maps to an element of the
\* list that carries it.
KeyedById(d, list) ==
    /\ {d[k][1] : k \in 1..Len(d)} = {list[i][3] : i \in WithId(list)}
    /\ \A j, k \in 1..Len(d) : d[j][1] = d[k][1] => j = k
    /\ \A k \in 1..Len(d) : \E i \in WithId(list) :
          d[k][2] = list[i] /\ list[i][3] = d[k][1]

\* A mapping-valued nodes or links response is returned as it is.
MappingUnchanged ==
    (ListingOver /\ ~IsList(fr[Main].result.body)
       /\ tool.name \in {"get_lab_nodes", "get_lab_links"}) =>
        /\ tool.result.kind = "value"
        /\ tool.result.data = fr[Main].result.body[2]

\* C13 as stated: when the server returns a list, the result of a listing
\* tool is the id-keyed mapping of that list; a mapping-valued nodes or links
\* response is returned unchanged.
C13_ListToMapping ==
    /\ (ListingOver /\ IsList(fr[Main].result.body)) =>
          /\ tool.result.kind = "value"
          /\ KeyedById(tool.result.data, fr[Main].result.body[2])
    /\ MappingUnchanged

\* C13 as amended: that holds when every element of the list is an object;
\* a list that holds an element which is no object (a bare id string) makes
\* the tool return its error string.
C13_ListOfObjectsToMapping ==
    /\ (ListingOver /\ IsList(fr[Main].result.body)) =>
          LET list == fr[Main].result.body[2] IN
          IF \A i \in 1..Len(list) : list[i][1] = "object"
          THEN /\ tool.result.kind = "value"
               /\ KeyedById(tool.result.data, list)
          ELSE tool.result.kind = "error"
    /\ MappingUnchanged

\* A list of two elements, one with an id and one without, normalised to a
\* mapping of one key.
C13_Witness ==
    /\ ListingOver /\ tool.name = "get_lab_nodes"
    /\ fr[Main].result.body = NodesJson("array", <<EmptyJson, Item("n2")>>)
    /\ tool.result.data = <<<<"n2", Item("n2")>>>>

\* C14: create_link_v3 first POSTs the link with the fields src_int/dst_int;
\* the POST with the fields i1/i2 is made only after the first attempt ended
\* in an error (the request raised, or its response could not be read as an
\* object), at most once, to the same endpoint and with the same interface
\* ids in the same order; after a first attempt that returned a link id there
\* is no second POST.
C14_FallbackAfterError ==
    tool.name = "create_link_v3" =>
        /\ Len(tool.calls) <= 2
        /\ Len(tool.calls) >= 1 =>
              tool.calls[1] = [method |-> "POST", endpoint |-> LinksEndpoint(tool.lab),
                               payload |-> <<"src_int", tool.a, "dst_int", tool.b>>]
        /\ Len(tool.calls) = 2 =>
              /\ tool.calls[2] = [method |-> "POST", endpoint |-> LinksEndpoint(tool.lab),
                                  payload |-> <<"i1", tool.a, "i2", tool.b>>]
              /\ tool.first \in {"raised", "unparsed"}
        /\ tool.first = "id" =>
              /\ Len(tool.calls) = 1 /\ tool.pc = "done"
              /\ tool.result.kind = "value"

\* The second POST answered with a link id, after a first POST answered 500.
C14_Witness ==
    /\ tool.name = "create_link_v3" /\ tool.pc = "done"
    /\ Len(tool.calls) = 2 /\ tool.first = "raised" /\ EndpointFailed(1)
    /\ tool.result.text = "Created link using alternative format"

\* initialize_client replaces the session object by a new one.
NewSession ==
    tool.pc \in {"idle", "done"} /\ tool'.name = "initialize_client"
       /\ tool'.pc = "await"

\* The step stores a token inside authenticate(), after a login that was
\* answered with a success status.
StoredByLogin ==
    \E c \in Calls :
        /\ fr[c].pc = "login" /\ fr'[c].pc = "verify"
        /\ Is2xx(fr'[c].loginResp)
        /\ token' = strip_quotes(fr'[c].loginResp.body)

\* C15 as stated: on a given session, no step of authenticate() or request()
\* changes the server address, the credentials, the transport settings or the
\* client's default headers, and the token changes only in authenticate()
\* after a successful login.
C15_OnlyTokenMutated ==
    [][~NewSession =>
          /\ cml_auth' = cml_auth
          /\ clientAuth' = clientAuth
          /\ token' # token => StoredByLogin]_vars

\* C15 as amended: the token and the client's default Authorization header
\* are the only session state that changes; both change only in
\* authenticate() after a successful login, in the same step, and the header
\* becomes "Bearer <token>".
C15_TokenAndDefaultHeader ==
    [][~NewSession =>
          /\ cml_auth' = cml_auth
          /\ (token' # token \/ clientAuth' # clientAuth) =>
                (StoredByLogin /\ clientAuth' = BearerOf(token'))]_vars

\* A re-authentication has replaced the token and the default header that the
\* session held.
C15_Witness ==
    \E c \in RequestFrames :
        /\ fr[c].why = "re" /\ fr[c].nStore >= 1
        /\ Truthy(fr[c].a_tok) /\ token # fr[c].a_tok
        /\ clientAuth = BearerOf(token) /\ clientAuth # fr[c].a_hdr
        /\ cml_auth.exists /\ cml_auth.base_url = <<"https://", "cml.example">>

NOT_INITIALIZED == "You must initialize the client first with initialize_client()"

\* C16: as long as initialize_client has not been called, every tool call is
\* over at once with the 'You must initialize the client first' error, and no
\* gateway call and no HTTP request has been made.
C16_NoToolBeforeInitialize ==
    ~cml_auth.exists =>
        /\ tool.pc \in {"idle", "done"}
        /\ tool.pc = "done" =>
              /\ tool.result.kind = "error"
              /\ tool.result.text = NOT_INITIALIZED
        /\ tool.calls = <<>>
        /\ \A c \in Calls : fr[c] = IdleFrame

\* wait_for_lab_nodes called before initialize_client.
C16_Witness ==
    /\ ~cml_auth.exists
    /\ tool.name = "wait_for_lab_nodes" /\ tool.pc = "done"
    /\ tool.result.text = NOT_INITIALIZED

\* C17: whenever a tool may be called, _check_auth() returns None exactly when
\* a session exists and holds a token; with no token held, as after an
\* initialize_client whose authentication failed, it returns the error mapping.
C17_CheckAuthIffToken ==
    (ToolIdle /\ NoCallRunning) =>
        ((_check_auth = NoValue) <=> (cml_auth.exists /\ token # None))

\* What the code does instead: _check_auth() returns None exactly when a
\* session object exists, whether or not it holds a token.
C17_CheckAuthIffSession ==
    /\ (_check_auth = NoValue) <=> cml_auth.exists
    /\ _check_auth # NoValue => _check_auth = ErrorValue(NOT_INITIALIZED)

\* ceil(timeout / 5)
CeilRounds(timeout) == (timeout + POLL_INTERVAL - 1) \div POLL_INTERVAL

PollRunning == tool.name = "wait_for_lab_nodes" /\ tool.pc \notin {"idle", "done"}

\* The check rounds of one wait_for_lab_nodes call are at most ceil(timeout/5)
\* when timeout > 0, and none when timeout <= 0.
RoundsBounded ==
    tool.name = "wait_for_lab_nodes" =>
        /\ tool.timeout > 0 => tool.rounds <= CeilRounds(tool.timeout)
        /\ tool.timeout <= 0 => tool.rounds = 0
        /\ tool.sleeps <= tool.rounds

\* C18: when every outbound request is answered, a wait_for_lab_nodes call
\* comes to its end, after at most ceil(timeout/5) check rounds for a timeout
\* above zero and after no round for a timeout of zero or less.
C18_PollTerminates ==
    /\ []RoundsBounded
    /\ PollRunning ~> (tool.pc = "done")

\* A poll that timed out after ceil(6/5) = 2 rounds.
C18_Witness ==
    /\ tool.name = "wait_for_lab_nodes" /\ tool.pc = "done"
    /\ tool.timeout = 6 /\ tool.rounds = 2
    /\ tool.result.text = TIMED_OUT

----------------------------------------------------------------------------
(* create_ospf_lab *)

OspfSucceeded ==
    tool.name = "create_ospf_lab" /\ tool.pc = "done" /\ tool.result.kind = "value"

ConfigCalls == {i \in 1..Len(tool.calls) : tool.calls[i].method = "PUT"}

\* C19: when create_ospf_lab returns status 'success', both configuration
\* PUTs it made succeeded.
C19_SuccessMeansConfigured ==
    OspfSucceeded => \A i \in ConfigCalls : ~Failed(i)

\* What success does mean: the lab and the two routers were created, a link
\* was created by one of the two POSTs, and both configurations were sent,
\* Router1's before Router2's.
OspfSuccessMeansBuilt ==
    OspfSucceeded =>
        /\ Len(tool.made) = 2
        /\ \A i \in 1..Len(tool.calls) :
               tool.calls[i].endpoint \in {LabsEndpoint, AddNodeEndpoint(tool.lab)}
                   => ~Failed(i)
        /\ \E i \in 1..Len(tool.calls) :
               tool.calls[i].endpoint = LinksEndpoint(tool.lab) /\ ~Failed(i)
        /\ Cardinality(ConfigCalls) = 2
        /\ \A i \in ConfigCalls :
               tool.calls[i].endpoint =
                   ConfigEndpoint(tool.lab, tool.made[IF i = Len(tool.calls) THEN 2 ELSE 1])

----------------------------------------------------------------------------
(* create_stp_lab *)

StpSucceeded ==
    tool.name = "create_stp_lab" /\ tool.pc = "done" /\ tool.result.kind = "value"

\* C20: a successful create_stp_lab lists num_switches switches, and its
\* message reports that count, for every value of num_switches.
C20_ExactlyNumSwitches ==
    StpSucceeded =>
        /\ Len(tool.result.data[1]) = tool.num_switches
        /\ tool.result.data[2] = tool.num_switches

\* What the result does list: two, four or six switches, the message
\* reporting the number listed, and one link entry for every pair linked.
StpSwitchesInPairs ==
    StpSucceeded =>
        /\ Len(tool.result.data[1]) =
               (IF tool.num_switches > 4 THEN 6 ELSE IF tool.num_switches > 2 THEN 4 ELSE 2)
        /\ tool.result.data[2] = Len(tool.result.data[1])
        /\ tool.links = (CASE Len(tool.made) = 2 -> 1 [] Len(tool.made) = 4 -> 6
                            [] OTHER -> 11)

----------------------------------------------------------------------------
(* More properties of CMLAuth.request, checked under Spec *)

\* The exception a failed HTTP call ends in.
ErrorKind(r) == IF r.kind = "response" THEN "HTTPStatusError" ELSE "TransportError"

ReauthRejected(f) ==
    First401(f) /\ f.why = "re" /\ f.loginResp.kind # "none" /\ ~Is2xx(f.loginResp)

\* C22: when the login of the re-authentication that a 401 triggered is
\* rejected, no retried request leaves, the call raises, and the token is
\* the one held before; the error is of the kind that a failed retried
\* request ends in (an HTTPStatusError for a status, the transport's error
\* otherwise).
C22_ReauthRejected ==
    \A c \in RequestFrames :
        LET f == fr[c] IN
        /\ ReauthRejected(f) =>
              /\ Len(f.sent) = 1
              /\ f.pc = "raised"
              /\ f.result.kind = ErrorKind(f.loginResp)
              /\ f.result.status = f.loginResp.status
              /\ token = f.sent[1].tok
              /\ token = f.a_tok
              /\ clientAuth = f.a_hdr
        /\ (Len(f.resps) = 2 /\ ~Is2xx(f.resps[2])) =>
              /\ f.pc = "raised"
              /\ f.result.kind = ErrorKind(f.resps[2])
              /\ f.result.status = f.resps[2].status

\* A re-authentication whose login was answered 403.
C22_Witness ==
    \E c \in RequestFrames :
        /\ ReauthRejected(fr[c])
        /\ fr[c].loginResp.kind = "response" /\ fr[c].loginResp.status = 403
        /\ fr[c].result.kind = "HTTPStatusError"
        /\ Truthy(token)

\* The HTTP calls a request() has made: logins, verifications, endpoint requests.
HttpCalls(f) == f.nLogin + f.nVerify + Len(f.sent)

\* C28: a request() makes at most two endpoint requests and at most two
\* authenticate() calls, a second one only when it was entered without a
\* token and its first response was a 401; at most six HTTP calls in all.
C28_AtMostSixCalls ==
    \A c \in RequestFrames :
        LET f == fr[c] IN
        /\ Len(f.sent) <= 2
        /\ f.nAuth <= 2
        /\ f.nLogin = f.nAuth
        /\ f.nVerify <= f.nLogin
        /\ HttpCalls(f) <= 6
        /\ f.nAuth = 2 => (~Truthy(f.tok0) /\ First401(f))
        /\ f.nAuth = (IF Truthy(f.tok0) THEN 0 ELSE 1) + (IF First401(f) THEN 1 ELSE 0)

\* A request() that made six HTTP calls.
C28_Witness ==
    \E c \in RequestFrames :
        /\ HttpCalls(fr[c]) = 6 /\ Over(fr[c])
        /\ fr[c].nAuth = 2 /\ Len(fr[c].sent) = 2

----------------------------------------------------------------------------
(* delete_lab and create_interface, checked under SpecLabs *)

\* The places in the history of the running tool of its calls `method endpoint`.
CallsTo(method, endpoint) ==
    {i \in 1..Len(tool.calls) :
        tool.calls[i].method = method /\ tool.calls[i].endpoint = endpoint}

\* The call of the running tool at place i, without its payload.
CallAt(i) == <<tool.calls[i].method, tool.calls[i].endpoint>>

\* C23: delete_lab issues no DELETE for a lab that is STARTED unless it has
\* issued a stop request for it before; the order is always the details
\* lookup, then the stop when the lab is STARTED, then the DELETE.
C23_StopBeforeDelete ==
    tool.name = "delete_lab" =>
        \A d \in CallsTo("DELETE", LabEndpoint(tool.lab)) :
            /\ tool.calls[1] = [method |-> "GET", endpoint |-> LabEndpoint(tool.lab),
                                payload |-> <<>>]
            /\ tool.was = "STARTED" =>
                  \E i \in CallsTo("PUT", StopEndpoint(tool.lab)) : 1 < i /\ i < d

\* What holds of delete_lab: the calls are the details lookup, then the
\* DELETE, with the stop request and the sleep between the two exactly when
\* the details said STARTED.  When the lookup fails, the DELETE follows it
\* at once, whatever state the lab is in.
DeleteLabOrder ==
    tool.name = "delete_lab" =>
        LET lab == tool.lab
            order == IF tool.said = "STARTED"
                     THEN << <<"GET", LabEndpoint(lab)>>, <<"PUT", StopEndpoint(lab)>>,
                             <<"DELETE", LabEndpoint(lab)>> >>
                     ELSE << <<"GET", LabEndpoint(lab)>>, <<"DELETE", LabEndpoint(lab)>> >>
        IN
        /\ Len(tool.calls) <= Len(order)
        /\ \A i \in 1..Len(tool.calls) : CallAt(i) = order[i]
        /\ tool.said = "STARTED" => tool.was = "STARTED"
        /\ CallsTo("DELETE", LabEndpoint(lab)) # {} =>
              tool.sleeps = (IF tool.said = "STARTED" THEN 1 ELSE 0)
        /\ tool.pc = "done" => Len(tool.calls) \in {0, Len(order)}

\* C24: create_interface issues no POST while the lab is STARTED: for a
\* running lab it returns the 'Cannot create interfaces' error, whatever the
\* outcome of its details lookup.
C24_NoInterfaceOnRunningLab ==
    (tool.name = "create_interface" /\ tool.was = "STARTED") =>
        /\ CallsTo("POST", NewInterfaceEndpoint(tool.lab)) = {}
        /\ (tool.pc = "done" /\ cml_auth.exists) => tool.result = ErrorValue(CANNOT_CREATE)

\* What holds of create_interface: no POST and that error when the details
\* said STARTED; when the lookup failed, the POST is issued.
CreateInterfaceGuard ==
    tool.name = "create_interface" =>
        /\ tool.said = "STARTED" =>
              /\ tool.was = "STARTED"
              /\ CallsTo("POST", NewInterfaceEndpoint(tool.lab)) = {}
              /\ tool.pc = "done" /\ tool.result = ErrorValue(CANNOT_CREATE)
        /\ tool.said = "other" =>
              /\ Len(tool.calls) = 2
              /\ CallAt(2) = <<"POST", NewInterfaceEndpoint(tool.lab)>>
        /\ Len(tool.calls) >= 1 => CallAt(1) = <<"GET", LabEndpoint(tool.lab)>>

----------------------------------------------------------------------------
(* The rounds of wait_for_lab_nodes, checked under SpecTools *)

\* C25: the node set is fetched once, before the first round; the status
\* requests of the poll go through that set in its order, round after round,
\* a round being cut short by nothing but a request that fails; and 'all
\* ready' is returned only after a full round in which every node of the set
\* reported STARTED, whatever the rounds before it saw.
C25_EveryRoundEveryNode ==
    (tool.name = "wait_for_lab_nodes" /\ tool.polling) =>
        LET n == Len(tool.nodes)
            q == Len(tool.calls) - 2
        IN
        /\ CallsTo("GET", NodesEndpoint(tool.lab)) = {2}
        /\ n = 0 => q = 0
        /\ n > 0 =>
              /\ \A k \in 1..q :
                     CallAt(2 + k) =
                         <<"GET", NodeEndpoint(tool.lab, tool.nodes[((k - 1) % n) + 1])>>
              /\ q <= tool.rounds * n
              /\ tool.rounds > 0 => q > (tool.rounds - 1) * n
              /\ tool.pc = "sleep" => q = tool.rounds * n
              /\ (tool.pc = "done" /\ q < tool.rounds * n) =>
                    (tool.result.kind = "error" /\ q = Len(tool.outs) - 2)
        /\ (tool.pc = "done" /\ tool.result.text = READY) =>
              /\ q = tool.rounds * n
              /\ Len(tool.seen) = n
              /\ \A k \in 1..n : tool.seen[k] = "STARTED"
              /\ \A k \in 1..n : ~Failed(Len(tool.calls) - n + k)

\* 'All ready' after a second round over two nodes.
C25_Witness ==
    /\ tool.name = "wait_for_lab_nodes" /\ tool.pc = "done"
    /\ tool.result.text = READY
    /\ Len(tool.nodes) = 2 /\ tool.rounds = 2 /\ Len(tool.calls) = 6

----------------------------------------------------------------------------
(* link_nodes, checked under SpecLabs *)

\* The calls of the running link_nodes that ask for the interfaces of node n.
Lookups(n) == CallsTo("GET", InterfacesEndpoint(tool.lab, n))
LinkPosts == CallsTo("POST", LinksEndpoint(tool.lab))

\* C26: link_nodes looks up an interface on node A, then on node B, then
\* creates the link.  No lookup on B and no link POST follows a lookup on A
\* that returned an error, no link POST follows a lookup on B that did, and
\* the link POST names the interface found on A first, the one found on B
\* second.
C26_LinkNodesOrder ==
    (tool.name = "link_nodes" /\ Len(tool.calls) >= 1) =>
        LET A == Lookups(tool.na)
            B == Lookups(tool.nb)
        IN
        /\ A = {1}
        /\ Cardinality(B) <= 1
        /\ \A i \in B :
              /\ tool.a # ""
              /\ CallAt(i - 1) = <<"GET", InterfaceEndpoint(tool.lab, tool.a)>>
              /\ ~Failed(i - 1)
              /\ \A k \in 2..(i - 1) :
                     tool.calls[k].endpoint \in
                         {InterfaceEndpoint(tool.lab, x) : x \in Interfaces}
        /\ \A p \in LinkPosts :
              /\ \E i \in B :
                    /\ i < p
                    /\ \A k \in (i + 1)..(p - 1) :
                           tool.calls[k].endpoint \in
                               {InterfaceEndpoint(tool.lab, x) : x \in Interfaces}
                             \cup {LinksEndpoint(tool.lab)}
              /\ tool.a # "" /\ tool.b # ""
              /\ Arguments(tool.calls[p].payload) = <<tool.a, tool.b>>
        /\ LinkPosts # {} =>
              \E p \in LinkPosts :
                  /\ CallAt(p - 1) = <<"GET", InterfaceEndpoint(tool.lab, tool.b)>>
                  /\ ~Failed(p - 1)
        /\ (tool.pc = "done" /\ tool.a = "") =>
              (B = {} /\ LinkPosts = {} /\ tool.result.kind = "error")
        /\ (tool.pc = "done" /\ tool.b = "") =>
              (LinkPosts = {} /\ tool.result.kind = "error")

\* A link created between the second interface of A and the first of B.
C26_Witness ==
    /\ tool.name = "link_nodes" /\ tool.pc = "done" /\ tool.result.kind = "value"
    /\ tool.a = "if2" /\ tool.b = "if1"
    /\ Len(tool.calls) = 6
    /\ tool.calls[6].payload = <<"src_int", "if2", "dst_int", "if1">>

----------------------------------------------------------------------------
(* The order of create_ospf_lab, checked under SpecLabs *)

\* The calls that link_nodes makes in the lab of the running tool.
LinkNodesCalls ==
    {i \in 1..Len(tool.calls) :
        \/ tool.calls[i].endpoint \in
              {InterfacesEndpoint(tool.lab, n) : n \in {tool.na, tool.nb}}
        \/ tool.calls[i].endpoint \in {InterfaceEndpoint(tool.lab, x) : x \in Interfaces}
        \/ tool.calls[i].endpoint = LinksEndpoint(tool.lab)}

\* C29: create_ospf_lab creates the lab, Router1, Router2, links them, and
\* configures Router1, then Router2, in this order; a step is begun only when
\* every step before it returned no error, so that no configuration PUT is
\* sent unless the link was created; the two configurations are both sent
\* once the link is there.
C29_OspfStepsInOrder ==
    (tool.name = "create_ospf_lab" /\ Len(tool.calls) >= 1) =>
        LET n == Len(tool.calls)
            first == IF ConfigCalls = {} THEN n + 1
                     ELSE CHOOSE i \in ConfigCalls : \A k \in ConfigCalls : i <= k
        IN
        /\ CallAt(1) = <<"POST", LabsEndpoint>>
        /\ n >= 2 =>
              /\ ~Failed(1) /\ tool.lab # ""
              /\ CallAt(2) = <<"POST", AddNodeEndpoint(tool.lab)>>
              /\ tool.calls[2].payload[2] = "Router1"
        /\ n >= 3 =>
              /\ ~Failed(2) /\ Len(tool.made) >= 1
              /\ CallAt(3) = <<"POST", AddNodeEndpoint(tool.lab)>>
              /\ tool.calls[3].payload[2] = "Router2"
        /\ n >= 4 =>
              /\ ~Failed(3) /\ Len(tool.made) = 2
              /\ tool.na = tool.made[1] /\ tool.nb = tool.made[2]
              /\ CallAt(4) = <<"GET", InterfacesEndpoint(tool.lab, tool.made[1])>>
        /\ \A i \in 4..(first - 1) : i \in LinkNodesCalls
        /\ ConfigCalls \subseteq {first, first + 1}
        /\ ConfigCalls # {} =>
              /\ first > 4
              /\ tool.links = 1
              /\ \E p \in LinkPosts : p = first - 1 /\ ~Failed(p)
              /\ CallAt(first) = <<"PUT", ConfigEndpoint(tool.lab, tool.made[1])>>
              /\ n > first =>
                    CallAt(first + 1) = <<"PUT", ConfigEndpoint(tool.lab, tool.made[2])>>
        /\ tool.pc = "done" =>
              /\ tool.result.kind = "error" => ConfigCalls = {}
              /\ tool.result.kind = "value" => Cardinality(ConfigCalls) = 2

\* The link step failed after both routers were created: nothing follows.
C29_Witness ==
    /\ tool.name = "create_ospf_lab" /\ tool.pc = "done"
    /\ tool.result = ErrorValue("Failed to link routers")
    /\ Len(tool.made) = 2 /\ LinkPosts # {}
    /\ Failed(Len(tool.calls))

----------------------------------------------------------------------------
(* Interleaved request() calls, checked under SpecTwo *)

\* Both calls are under way or over.
BothCalled == \A c \in Calls : fr[c].fn = "request"

\* What holds in every state of two interleaved calls.
TwoCallsInvariant ==
    /\ \A c \in RequestFrames :
          LET f == fr[c] IN
          /\ Len(f.sent) <= 2
          /\ f.nLogin = f.nAuth
          /\ f.nAuth = (IF Truthy(f.tok0) THEN 0 ELSE 1)
                          + (IF First401(f) THEN 1 ELSE 0)
          /\ Len(f.sent) = 2 => First401(f)
          /\ \A i \in 1..Len(f.sent) :
                /\ f.sent[i].tok # None
                /\ f.sent[i].hdr = BearerOf(f.sent[i].tok)
                /\ f.sent[i].tok \in {strip_quotes(b) : b \in TwoLoginBodies}
    /\ (BothCalled /\ \A c \in Calls : Over(fr[c])) =>
          IF \E c \in Calls : fr[c].nStore > 0
          THEN \E c \in Calls : fr[c].nStore > 0 /\ token = fr[c].loginTok
          ELSE \A c \in Calls : token = fr[c].tok0
    /\ (BothCalled /\ \A c \in Calls : Truthy(fr[c].tok0) /\ First401(fr[c])) =>
          fr["A"].nLogin + fr["B"].nLogin = Cardinality(Calls)

=============================================================================
